---- MODULE Spec2Model ----
(***************************************************************************)
(* Tool-execution and turn-accounting core of codex-rs:                    *)
(*   core/src/state/turn.rs     ToolOutputBudget, TurnMetrics, TurnState    *)
(*   core/src/state/session.rs  RepeatCommandBreaker, IntervalSet, the      *)
(*                              code-range ledger                           *)
(*   core/src/exec.rs           process_exec_tool_call, its race, the       *)
(*                              capture of the child's output, the texts of *)
(*                              its result and the choice of the limit      *)
(*   core/src/tool_read_code.rs handle_read_code_tool_call and the functions *)
(*                              it is built from                            *)
(* Each component has its own specification over the shared variables:     *)
(*   SpecTurn, SpecMutex, SpecBreaker (LiveBreaker with fairness), SpecExec *)
(*   (LiveExec with fairness), SpecCapture (LiveCapture with fairness),     *)
(*   SpecResult, SpecLimit, SpecIntervals, SpecLedger, SpecRead, SpecCalls. *)
(* In the turn budget usize arithmetic is written with plain + and -, its   *)
(* values staying far below usize::MAX; IntervalSet is modelled up to a     *)
(* scaled usize::MAX, with saturating_add saturating there.                 *)
(***************************************************************************)
EXTENDS Integers, Sequences, FiniteSets, TLC

VARIABLES
    \* ---- TurnState (turn.rs) ----
    used_bytes,      \* ToolOutputBudget.used_bytes
    metrics,         \* TurnState.metrics : TurnMetrics
    turn_last,       \* the last TurnState operation, its arguments and its result
    turn_calls,      \* number of TurnState operations made in this turn
    granted_bytes,   \* sum of allowed_content_bytes + notice_bytes over all decisions
    content_bytes,   \* sum of allowed_content_bytes over all decisions
    exhausted_calls, \* reserve calls with desired > 0 made when remaining was 0
    turn_code_read_index, \* TurnState.code_read_index : path -> IntervalSet
    pending_approvals,    \* TurnState.pending_approvals : key -> reply sender
    pending_input,        \* TurnState.pending_input : Vec<ResponseInputItem>
    \* ---- RepeatCommandBreaker (session.rs) ----
    entries,         \* RepeatCommandBreaker.entries : command -> entry or NoEntry
    clock,           \* the monotonic clock read by Instant::now()
    breaker_last,    \* the last breaker operation, its arguments and its result
    streak,          \* per command: the current run of identical records
    \* ---- process_exec_tool_call (exec.rs) ----
    platform,        \* cfg(unix) or cfg(windows) build
    sandbox_type,    \* SandboxType argument
    linux_exe,       \* codex_linux_sandbox_exe.is_some()
    pc,              \* position of the supervisor
    child,           \* the child process
    kill_issued,     \* child.start_kill() was called
    race,            \* which select! branch completed, and its (exit_status, timed_out)
    streams,         \* the two read_capped tasks
    output_limit,    \* exec_output_limit_for_command(&params.command)
    stdout_stream,   \* stdout_stream.is_some(): a subscriber for output deltas
    agg_chan,        \* the chunks queued in the aggregator channel (agg_tx, agg_rx)
    agg_received,    \* the chunks the drain loop received from agg_rx
    deltas,          \* the ExecCommandOutputDelta events sent on tx_event
    child_fate,      \* how the command ends when left alone: an exit code or a signal
    pipe_reads,      \* how many reads of its pipes return data during the call
    raw_output,      \* the RawExecToolCallOutput of consume_truncated_output
    outcome,         \* the value process_exec_tool_call returned
    \* ---- IntervalSet (session.rs, turn.rs) ----
    intervals,       \* IntervalSet.intervals : Vec<(usize, usize)>
    intervals_last,  \* the last IntervalSet operation, its arguments and its result
    \* ---- SessionState's code-range ledger (session.rs) ----
    code_read_index, \* SessionState.code_read_index : path -> IntervalSet
    ledger_last,     \* the last ledger operation, its arguments and its result
    ledger_calls,    \* ledger operations made so far
    \* ---- process_exec_tool_call: the result built from the raw output (exec.rs) ----
    result_raw,      \* the RawExecToolCallOutput, its captures given byte by byte
    result_limit,    \* the ExecOutputLimit of the call
    result_sandbox,  \* sandbox_type of the call
    exec_result,     \* what process_exec_tool_call returns for it
    \* ---- exec_output_limit_for_command (exec.rs) ----
    limit_command,   \* command: &[String], each String the sequence of its characters
    limit_chosen,    \* the ExecOutputLimit returned for it
    \* ---- handle_read_code_tool_call (tool_read_code.rs) ----
    reads,           \* the read_code calls of the session: where each is, what it
                     \* holds between its uses of the session, and what it returned
    \* ---- enforce_line_cap, build_content, apply_context (tool_read_code.rs) ----
    call_args,       \* the function called and its arguments
    call_result,     \* what it returned
    \* ---- ActiveTurn.turn_state : Arc<Mutex<TurnState>> (turn.rs) ----
    turn_state_mutex, \* the task that holds the mutex, if one does
    lock_tasks,       \* per task: where it is in a call that locks the mutex
    mutex_last        \* the last step taken on the mutex, and by which task

varsCalls == <<call_args, call_result>>
varsMutex == <<turn_state_mutex, lock_tasks, mutex_last>>
turnHolders == <<turn_code_read_index, pending_approvals, pending_input>>
varsTurn == <<used_bytes, metrics, turn_last, turn_calls, granted_bytes, content_bytes,
              exhausted_calls, turnHolders>>
varsBreaker == <<entries, clock, breaker_last, streak>>
varsExec == <<platform, sandbox_type, linux_exe, pc, child, kill_issued, race, streams,
              output_limit, stdout_stream, agg_chan, agg_received, deltas, child_fate,
              pipe_reads, raw_output, outcome>>
varsIntervals == <<intervals, intervals_last>>
varsLedger == <<code_read_index, ledger_last, ledger_calls>>
varsResult == <<result_raw, result_limit, result_sandbox, exec_result>>
varsLimit == <<limit_command, limit_chosen>>
varsRead == <<reads>>
vars == <<varsTurn, varsBreaker, varsExec, varsIntervals, varsLedger, varsResult, varsLimit,
          varsRead, varsCalls, varsMutex>>
\* what the steps of one component leave alone
besidesTurn == <<varsMutex, varsCalls, varsRead, varsLimit, varsResult, varsBreaker, varsExec, varsIntervals, varsLedger>>
besidesBreaker == <<varsMutex, varsCalls, varsRead, varsLimit, varsResult, varsTurn, varsExec, varsIntervals, varsLedger>>
besidesExec == <<varsMutex, varsCalls, varsRead, varsLimit, varsResult, varsTurn, varsBreaker, varsIntervals, varsLedger>>
besidesIntervals == <<varsMutex, varsCalls, varsRead, varsLimit, varsResult, varsTurn, varsBreaker, varsExec, varsLedger>>
besidesLedger == <<varsMutex, varsCalls, varsRead, varsLimit, varsTurn, varsBreaker, varsExec, varsIntervals, varsResult>>
besidesLimit == <<varsMutex, varsCalls, varsRead, varsTurn, varsBreaker, varsExec, varsIntervals, varsLedger, varsResult>>
\* a read_code call uses the session's ledger and the turn's budget
besidesRead == <<varsMutex, varsCalls, varsBreaker, varsExec, varsIntervals, varsResult, varsLimit>>
besidesResult == <<varsMutex, varsCalls, varsRead, varsLimit, varsTurn, varsBreaker, varsExec, varsIntervals,
                   varsLedger>>
besidesCalls == <<varsMutex, varsRead, varsLimit, varsResult, varsTurn, varsBreaker, varsExec,
                  varsIntervals, varsLedger>>
\* a call that locks the turn state works on the TurnState behind the mutex
besidesMutex == <<varsCalls, varsRead, varsLimit, varsResult, varsBreaker, varsExec,
                  varsIntervals, varsLedger>>

Min(a, b) == IF a <= b THEN a ELSE b
\* usize::saturating_sub
SatSub(a, b) == IF a >= b THEN a - b ELSE 0

(***************************************************************************)
(* TurnState: the per-turn output budget and the turn metrics              *)
(***************************************************************************)
PER_TURN_OUTPUT_MAX_BYTES == 24 * 1024
TURN_OUTPUT_NOTICE_RESERVE_BYTES == 128

\* Bounds of the turn model.
MaxTurnCalls == 4
DesiredBytes == {0, 200, 512, 24476, 24576}
NoticeLens == {0, 64, 80, 200}

\* ToolOutputBudget::new(PER_TURN_OUTPUT_MAX_BYTES)
max_bytes == PER_TURN_OUTPUT_MAX_BYTES

ZeroMetrics ==
    [bytes_served |-> 0, bytes_trimmed |-> 0, outputs_truncated |-> 0,
     commands_blocked |-> 0, log_tail_invocations |-> 0]

NoTurnOp == [op |-> "none"]

remaining(used) == SatSub(max_bytes, used)

consume_unclamped(used, bytes) == used + bytes
\* ToolOutputBudget::consume
consume(used, bytes) == Min(used + bytes, max_bytes)

notice_cap_unbounded(notice_len) == notice_len
\* let notice_cap = TURN_OUTPUT_NOTICE_RESERVE_BYTES.min(notice_len)
notice_cap(notice_len) == Min(TURN_OUTPUT_NOTICE_RESERVE_BYTES, notice_len)

content_split_whole(rem, notice_bytes) == rem
\* let content_bytes = remaining.saturating_sub(notice_bytes)
content_split(rem, notice_bytes) == SatSub(rem, notice_bytes)

trimmed_amount_after_notice(desired_bytes, allowed, notice_bytes) ==
    SatSub(desired_bytes, allowed + notice_bytes)
\* desired_bytes.saturating_sub(allowed_content_bytes), added to metrics.bytes_trimmed
trimmed_amount(desired_bytes, allowed, notice_bytes) == SatSub(desired_bytes, allowed)

\* ToolOutputBudget::reserve: the decision, the new used_bytes and the new metrics.
reserve(used, m, desired_bytes, notice_len) ==
    IF desired_bytes = 0 THEN
        [allowed_content_bytes |-> 0, notice_bytes |-> 0, truncated |-> FALSE,
         used |-> used, metrics |-> m]
    ELSE IF desired_bytes <= remaining(used) THEN
        [allowed_content_bytes |-> desired_bytes, notice_bytes |-> 0, truncated |-> FALSE,
         used |-> consume(used, desired_bytes),
         metrics |-> [m EXCEPT !.bytes_served = @ + desired_bytes]]
    ELSE
        LET rem == remaining(used)
            cap == notice_cap(notice_len)
            notice == IF rem = 0 THEN cap ELSE Min(rem, cap)
            content == IF rem = 0 THEN 0 ELSE content_split(rem, notice)
            served == content + notice
        IN  [allowed_content_bytes |-> content, notice_bytes |-> notice, truncated |-> TRUE,
             used |-> consume(used, served),
             metrics |-> [m EXCEPT !.bytes_served = @ + served,
                                   !.bytes_trimmed = @ + trimmed_amount(desired_bytes, content, notice),
                                   !.outputs_truncated = @ + 1]]

InitTurn ==
    /\ used_bytes = 0
    /\ metrics = ZeroMetrics
    /\ turn_last = NoTurnOp
    /\ turn_calls = 0
    /\ granted_bytes = 0
    /\ content_bytes = 0
    /\ exhausted_calls = 0
    /\ turn_code_read_index = << >>
    /\ pending_approvals = << >>
    /\ pending_input = << >>

\* TurnState::reserve_tool_output
reserve_tool_output(desired_bytes, notice_len) ==
    /\ turn_calls < MaxTurnCalls
    /\ LET r == reserve(used_bytes, metrics, desired_bytes, notice_len)
       IN  /\ used_bytes' = r.used
           /\ metrics' = r.metrics
           /\ turn_last' = [op |-> "reserve", desired |-> desired_bytes,
                            notice_len |-> notice_len, used_before |-> used_bytes,
                            metrics_before |-> metrics,
                            allowed_content_bytes |-> r.allowed_content_bytes,
                            notice_bytes |-> r.notice_bytes, truncated |-> r.truncated]
           /\ granted_bytes' = granted_bytes + r.allowed_content_bytes + r.notice_bytes
           /\ content_bytes' = content_bytes + r.allowed_content_bytes
           /\ exhausted_calls' = exhausted_calls +
                 (IF desired_bytes > 0 /\ remaining(used_bytes) = 0 THEN 1 ELSE 0)
    /\ turn_calls' = turn_calls + 1
    /\ UNCHANGED turnHolders

drain_metrics_keeps ==
    /\ turn_calls < MaxTurnCalls
    /\ turn_last' = [op |-> "drain", used_before |-> used_bytes, returned |-> metrics]
    /\ turn_calls' = turn_calls + 1
    /\ UNCHANGED <<used_bytes, metrics, granted_bytes, content_bytes, exhausted_calls,
                   turnHolders>>
\* TurnState::drain_metrics (std::mem::take)
drain_metrics ==
    /\ turn_calls < MaxTurnCalls
    /\ metrics' = ZeroMetrics
    /\ turn_last' = [op |-> "drain", used_before |-> used_bytes, returned |-> metrics]
    /\ turn_calls' = turn_calls + 1
    /\ UNCHANGED <<used_bytes, granted_bytes, content_bytes, exhausted_calls, turnHolders>>

\* TurnState::record_command_blocked
record_command_blocked ==
    /\ turn_calls < MaxTurnCalls
    /\ metrics' = [metrics EXCEPT !.commands_blocked = @ + 1]
    /\ turn_last' = [op |-> "blocked", used_before |-> used_bytes]
    /\ turn_calls' = turn_calls + 1
    /\ UNCHANGED <<used_bytes, granted_bytes, content_bytes, exhausted_calls, turnHolders>>

record_log_tail_as_blocked ==
    /\ turn_calls < MaxTurnCalls
    /\ metrics' = [metrics EXCEPT !.commands_blocked = @ + 1]
    /\ turn_last' = [op |-> "log_tail", used_before |-> used_bytes]
    /\ turn_calls' = turn_calls + 1
    /\ UNCHANGED <<used_bytes, granted_bytes, content_bytes, exhausted_calls, turnHolders>>
\* TurnState::record_log_tail
record_log_tail ==
    /\ turn_calls < MaxTurnCalls
    /\ metrics' = [metrics EXCEPT !.log_tail_invocations = @ + 1]
    /\ turn_last' = [op |-> "log_tail", used_before |-> used_bytes]
    /\ turn_calls' = turn_calls + 1
    /\ UNCHANGED <<used_bytes, granted_bytes, content_bytes, exhausted_calls, turnHolders>>

(***************************************************************************)
(* SessionState: the repeat-command circuit breaker                        *)
(***************************************************************************)
DEFAULT_REPEAT_COMMAND_REPEATS == 3
DEFAULT_REPEAT_COMMAND_WINDOW_SECS == 120
REPEAT_COMMAND_OUTPUT_PREVIEW_BYTES == 256

\* Bounds of the breaker model. Time is counted in seconds.
MaxTime == 370
MaxStreak == 4
Commands == {<< >>, <<"ls", "-l">>, <<"rg", "foo">>}
\* Outputs are sequences of characters: "a", "a\n" and " ".
Outputs == {<<"a">>, <<"a", "\n">>, <<" ">>}
TickSteps == {DEFAULT_REPEAT_COMMAND_WINDOW_SECS, DEFAULT_REPEAT_COMMAND_WINDOW_SECS + 1}

None == [some |-> FALSE]
Some(x) == [some |-> TRUE, val |-> x]

\* RepeatCommandConfig::default
config ==
    [max_repeats |-> DEFAULT_REPEAT_COMMAND_REPEATS,
     window |-> DEFAULT_REPEAT_COMMAND_WINDOW_SECS]

\* RepeatCommandBreaker::is_enabled
is_enabled == config.max_repeats > 1

\* Instant::saturating_duration_since
saturating_duration_since(now, earlier) == SatSub(now, earlier)

Whitespace == {" ", "\n", "\t"}

RECURSIVE trim_start(_)
trim_start(s) ==
    IF s = << >> THEN << >>
    ELSE IF Head(s) \in Whitespace THEN trim_start(Tail(s))
    ELSE s

RECURSIVE trim_end(_)
trim_end(s) ==
    IF s = << >> THEN << >>
    ELSE IF s[Len(s)] \in Whitespace THEN trim_end(SubSeq(s, 1, Len(s) - 1))
    ELSE s

\* str::trim
trim(s) == trim_end(trim_start(s))

\* crate::truncate::truncate_middle: the text itself when it fits max_bytes,
\* otherwise its head and its tail, max_bytes in all.
truncate_middle(s, max) ==
    IF Len(s) <= max THEN s
    ELSE SubSeq(s, 1, max \div 2) \o SubSeq(s, Len(s) - (max - max \div 2) + 1, Len(s))

\* fingerprint_output: DefaultHasher over the bytes of the output. The hash is
\* a stable function of the bytes; here the bytes are folded into a number
\* that differs for every two outputs of the model.
CharCode(c) == CASE c = "a" -> 97 [] c = " " -> 32 [] c = "\n" -> 10 [] OTHER -> 9

RECURSIVE fingerprint_fold(_, _)
fingerprint_fold(h, s) ==
    IF s = << >> THEN h
    ELSE fingerprint_fold((h * 131 + CharCode(Head(s)) + 1) % 1000003, Tail(s))

fingerprint_output(output) == fingerprint_fold(7, output)

\* output_preview
output_preview(output) ==
    LET trimmed == trim(output)
    IN  IF trimmed = << >> THEN None
        ELSE Some(truncate_middle(trimmed, REPEAT_COMMAND_OUTPUT_PREVIEW_BYTES))

expired_at_window(now, last_seen) ==
    saturating_duration_since(now, last_seen) >= config.window
\* now.saturating_duration_since(entry.last_seen) > self.config.window
expired(now, last_seen) == saturating_duration_since(now, last_seen) > config.window

blocks_above_threshold(repeat_count, threshold) == repeat_count > threshold
\* entry.repeat_count >= threshold
blocks(repeat_count, threshold) == repeat_count >= threshold

check_refreshing(es, command, now) ==
    IF command \in DOMAIN es /\ ~expired(now, es[command].last_seen)
    THEN [result |-> None, entries |-> [es EXCEPT ![command].last_seen = now]]
    ELSE [result |-> None, entries |-> es]
\* RepeatCommandBreaker::check: the returned Option and the entries left.
check(es, command, now) ==
    IF ~is_enabled \/ command = << >> THEN [result |-> None, entries |-> es]
    ELSE IF command \notin DOMAIN es THEN [result |-> None, entries |-> es]
    ELSE IF expired(now, es[command].last_seen) THEN
        [result |-> None,
         entries |-> [c \in (DOMAIN es) \ {command} |-> es[c]]]
    ELSE
        LET threshold == SatSub(config.max_repeats, 1)
            entry == es[command]
        IN  IF threshold = 0 THEN [result |-> None, entries |-> es]
            ELSE IF blocks(entry.repeat_count, threshold) THEN
                [result |-> Some([repeat_count |-> entry.repeat_count,
                                  window |-> config.window,
                                  last_excerpt |-> entry.last_excerpt]),
                 entries |-> es]
            ELSE [result |-> None, entries |-> es]

\* (entry.repeat_count + 1).min(self.config.max_repeats)
next_repeat_count(repeat_count) == Min(repeat_count + 1, config.max_repeats)

resets_on_fingerprint_only(entry, fingerprint, now) == entry.last_fingerprint # fingerprint
\* the condition of the Occupied arm that restarts the count
resets(entry, fingerprint, now) ==
    expired(now, entry.last_seen) \/ entry.last_fingerprint # fingerprint

record_alone(es, command, output, now) ==
    [c \in {command} |->
        [last_fingerprint |-> fingerprint_output(output), repeat_count |-> 1,
         last_seen |-> now, last_excerpt |-> output_preview(output)]]
\* RepeatCommandBreaker::record: the entries left.
record(es, command, output, now) ==
    IF ~is_enabled \/ command = << >> THEN es
    ELSE
        LET fingerprint == fingerprint_output(output)
            excerpt == output_preview(output)
            updated ==
                IF command \in DOMAIN es THEN
                    IF resets(es[command], fingerprint, now) THEN
                        [es[command] EXCEPT !.repeat_count = 1,
                                            !.last_fingerprint = fingerprint,
                                            !.last_seen = now,
                                            !.last_excerpt = excerpt]
                    ELSE
                        [es[command] EXCEPT !.repeat_count = next_repeat_count(@),
                                            !.last_seen = now,
                                            !.last_excerpt = excerpt]
                ELSE
                    [last_fingerprint |-> fingerprint, repeat_count |-> 1,
                     last_seen |-> now, last_excerpt |-> excerpt]
        IN  [c \in (DOMAIN es) \cup {command} |-> IF c = command THEN updated ELSE es[c]]

NoStreak == [n |-> 0]
NoBreakerOp == [op |-> "none"]
\* The commands the breaker keeps entries for.
RealCommands == Commands \ {<< >>}

InitBreaker ==
    /\ entries = << >>
    /\ clock = 0
    /\ breaker_last = NoBreakerOp
    /\ streak = [c \in RealCommands |-> NoStreak]

\* Time passes between two calls: Instant::now() is monotonic. A run of
\* identical records ends once more than the window has passed since its last
\* record.
Tick(d) ==
    /\ clock + d <= MaxTime
    /\ clock' = clock + d
    /\ breaker_last' = [op |-> "tick"]
    /\ streak' = [c \in RealCommands |->
                    IF streak[c].n > 0
                       /\ clock' - streak[c].last > DEFAULT_REPEAT_COMMAND_WINDOW_SECS
                    THEN NoStreak ELSE streak[c]]
    /\ UNCHANGED entries

\* SessionState::check_repeat_command(command, Instant::now())
check_repeat_command(command) ==
    LET r == check(entries, command, clock)
    IN  /\ entries' = r.entries
        /\ breaker_last' = [op |-> "check", command |-> command,
                            existed |-> command \in DOMAIN entries, result |-> r.result]
        /\ UNCHANGED <<clock, streak>>

\* SessionState::record_repeat_command(command, output, Instant::now())
record_repeat_command(command, output) ==
    /\ clock + 2 * DEFAULT_REPEAT_COMMAND_WINDOW_SECS <= MaxTime
    /\ command \in RealCommands => streak[command].n < MaxStreak
    /\ entries' = record(entries, command, output, clock)
    /\ breaker_last' = [op |-> "record", command |-> command, output |-> output,
                        existed |-> command \in DOMAIN entries]
    /\ streak' = [c \in RealCommands |->
                    IF c # command THEN streak[c]
                    ELSE IF streak[c].n > 0 /\ streak[c].output = output
                    THEN [n |-> streak[c].n + 1, output |-> output, last |-> clock]
                    ELSE [n |-> 1, output |-> output, last |-> clock]]
    /\ UNCHANGED clock

(***************************************************************************)
(* exec.rs: process_exec_tool_call, the race of consume_truncated_output   *)
(* and the classification of its result                                    *)
(***************************************************************************)
SIGKILL_CODE == 9
TIMEOUT_CODE == 64
EXIT_CODE_SIGNAL_BASE == 128
EXEC_TIMEOUT_EXIT_CODE == 124

Platforms == {"unix", "windows"}
SandboxTypes == {"None", "MacosSeatbelt", "LinuxSeccomp"}
StreamNames == {"stdout", "stderr"}
\* What a child can end with on its own: an exit code, or (unix) a signal.
ChildExitCodes == {0, 1, 127}
ChildSignals == {9, 15, 64}

\* A unix ExitStatus is the raw wait status: an exit with code c is c * 256,
\* a death by signal s is s in the low seven bits. A windows ExitStatus is
\* the exit code.
exited_status(p, code) == IF p = "unix" THEN code * 256 ELSE code
signaled_status(sig) == sig
\* the status of a child killed by start_kill: SIGKILL, or TerminateProcess(1)
killed_status(p) == IF p = "unix" THEN signaled_status(SIGKILL_CODE) ELSE 1

\* synthetic_exit_status: ExitStatus::from_raw(code)
synthetic_exit_status(code) == code

\* ExitStatusExt::signal (unix): WIFSIGNALED(status) then WTERMSIG(status)
status_signal(raw) ==
    LET low == raw % 128
    IN  IF low # 0 /\ low # 127 THEN Some(low) ELSE None

\* ExitStatus::code: WIFEXITED(status) then WEXITSTATUS(status) on unix
status_code(p, raw) ==
    IF p = "unix"
    THEN IF raw % 128 = 0 THEN Some((raw \div 256) % 256) ELSE None
    ELSE Some(raw)

is_likely_sandbox_denied_any(st, exit_code) == st # "None"
\* is_likely_sandbox_denied
is_likely_sandbox_denied(st, exit_code) ==
    IF st = "None" THEN FALSE
    ELSE IF exit_code = 127 THEN FALSE
    ELSE TRUE

timeout_exit_code_of_status(exit_code, timed_out) == exit_code
\* if timed_out { exit_code = EXEC_TIMEOUT_EXIT_CODE; }
timeout_exit_code(exit_code, timed_out) ==
    IF timed_out THEN EXEC_TIMEOUT_EXIT_CODE ELSE exit_code

signal_is_timeout_any(signal) == TRUE
\* if signal == TIMEOUT_CODE
signal_is_timeout(signal) == signal = TIMEOUT_CODE

\* The match on raw_output_result in process_exec_tool_call, for Ok(raw_output).
classify(p, st, raw) ==
    LET sig == IF p = "unix" THEN status_signal(raw.exit_status) ELSE None
        timed_out == raw.timed_out \/ (sig.some /\ signal_is_timeout(sig.val))
        code == status_code(p, raw.exit_status)
        exit_code == timeout_exit_code(IF code.some THEN code.val ELSE -1, timed_out)
        output == [exit_code |-> exit_code, timed_out |-> timed_out,
                   stdout_truncated |-> raw.stdout_truncated,
                   stderr_truncated |-> raw.stderr_truncated,
                   aggregated_truncated |-> raw.aggregated_truncated
                                            \/ raw.stdout_truncated \/ raw.stderr_truncated]
    IN  IF sig.some /\ ~signal_is_timeout(sig.val) THEN [kind |-> "Signal", signal |-> sig.val]
        ELSE IF timed_out THEN [kind |-> "Timeout", output |-> output]
        ELSE IF exit_code # 0 /\ is_likely_sandbox_denied(st, exit_code)
             THEN [kind |-> "Denied", output |-> output]
        ELSE [kind |-> "Ok", output |-> output]

\* I/O buffer sizing and the byte budgets of ExecOutputLimit
READ_CHUNK_SIZE == 8192
GENERIC_EXEC_OUTPUT_MAX_BYTES == 6 * 1024
RG_EXEC_OUTPUT_MAX_BYTES == 8 * 1024
\* 10_000 in exec.rs; scaled down so that a stream can reach it within MaxReads
MAX_EXEC_OUTPUT_DELTAS_PER_CALL == 2
\* reads that return data, over both pipes of one call
MaxReads == 4
\* the reads of a call followed under fair scheduling
DrainReads == 2
\* n of one reader.read(&mut tmp): half a buffer or a full buffer
ChunkLens == {READ_CHUNK_SIZE \div 2, READ_CHUNK_SIZE}
OutputLimits == {"generic", "ripgrep"}

GENERIC_EXEC_TRUNCATION_NOTICE ==
    "[output truncated to 6 KiB; refine the command or request /relax for a temporary increase]"
RG_EXEC_TRUNCATION_NOTICE ==
    "[rg output truncated to 8 KiB; narrow the search (e.g., add filters) or request /relax]"

ExecOutputLimit_wide_aggregate(l) ==
    IF l = "ripgrep"
    THEN [stream_max_bytes |-> RG_EXEC_OUTPUT_MAX_BYTES,
          aggregated_max_bytes |-> 2 * RG_EXEC_OUTPUT_MAX_BYTES,
          truncation_notice |-> RG_EXEC_TRUNCATION_NOTICE]
    ELSE [stream_max_bytes |-> GENERIC_EXEC_OUTPUT_MAX_BYTES,
          aggregated_max_bytes |-> 2 * GENERIC_EXEC_OUTPUT_MAX_BYTES,
          truncation_notice |-> GENERIC_EXEC_TRUNCATION_NOTICE]
\* ExecOutputLimit::generic() and ExecOutputLimit::ripgrep()
ExecOutputLimit(l) ==
    IF l = "ripgrep"
    THEN [stream_max_bytes |-> RG_EXEC_OUTPUT_MAX_BYTES,
          aggregated_max_bytes |-> RG_EXEC_OUTPUT_MAX_BYTES,
          truncation_notice |-> RG_EXEC_TRUNCATION_NOTICE]
    ELSE [stream_max_bytes |-> GENERIC_EXEC_OUTPUT_MAX_BYTES,
          aggregated_max_bytes |-> GENERIC_EXEC_OUTPUT_MAX_BYTES,
          truncation_notice |-> GENERIC_EXEC_TRUNCATION_NOTICE]

\* Bytes are named by their stream and their position in it: a chunk, and
\* every slice of one, is the run lo..hi of the bytes of one stream, and a
\* Vec<u8> is the sequence of the runs appended to it.
chunk_len(c) == c.hi - c.lo + 1
\* &tmp[..take]
slice_to(c, take) == [stream |-> c.stream, lo |-> c.lo, hi |-> c.lo + take - 1]
\* append_all(&mut buf, slice)
append_all(buf, slice) == Append(buf, slice)

RECURSIVE buf_len(_)
\* Vec::len
buf_len(buf) == IF buf = << >> THEN 0 ELSE chunk_len(Head(buf)) + buf_len(Tail(buf))

capture_chunk_uncapped(buf, truncated, chunk, max) ==
    [buf |-> append_all(buf, chunk), truncated |-> truncated]
\* read_capped: the capture of one chunk into buf, capped at max_bytes
capture_chunk(buf, truncated, chunk, max) ==
    IF buf_len(buf) < max
    THEN LET rem == SatSub(max, buf_len(buf))
             take == Min(rem, chunk_len(chunk))
         IN  [buf |-> IF take > 0 THEN append_all(buf, slice_to(chunk, take)) ELSE buf,
              truncated |-> truncated \/ take < chunk_len(chunk)]
    ELSE [buf |-> buf, truncated |-> TRUE]

aggregate_chunk_unflagged(buf, truncated, chunk, max) ==
    IF buf_len(buf) < max
    THEN LET take == Min(SatSub(max, buf_len(buf)), chunk_len(chunk))
         IN  [buf |-> IF take > 0 THEN append_all(buf, slice_to(chunk, take)) ELSE buf,
              truncated |-> truncated]
    ELSE [buf |-> buf, truncated |-> truncated]
\* consume_truncated_output: the body of the loop over agg_rx.recv()
aggregate_chunk(buf, truncated, chunk, max) ==
    IF buf_len(buf) < max
    THEN LET rem == SatSub(max, buf_len(buf))
             take == Min(rem, chunk_len(chunk))
         IN  [buf |-> IF take > 0 THEN append_all(buf, slice_to(chunk, take)) ELSE buf,
              truncated |-> truncated \/ take < chunk_len(chunk)]
    ELSE [buf |-> buf, truncated |-> TRUE]

RECURSIVE drain(_, _, _, _)
\* while let Ok(chunk) = agg_rx.recv().await { ... } once every sender is gone
drain(chan, buf, truncated, max) ==
    IF chan = << >>
    THEN [text |-> buf, truncated_by_bytes |-> truncated]
    ELSE LET r == aggregate_chunk(buf, truncated, Head(chan), max)
         IN  drain(Tail(chan), r.buf, r.truncated, max)

send_front(chan, msg) == <<msg>> \o chan
\* Sender::send on a channel: the message is queued behind the earlier ones
send(chan, msg) == Append(chan, msg)

delta_allowed_always(stream, emitted_deltas) == stream
\* if let Some(stream) = &stream && emitted_deltas < MAX_EXEC_OUTPUT_DELTAS_PER_CALL
delta_allowed(stream, emitted_deltas) ==
    stream /\ emitted_deltas < MAX_EXEC_OUTPUT_DELTAS_PER_CALL

drop_forgotten(handle) == handle
\* drop(agg_tx): whether the handle is still held afterwards
drop(handle) == FALSE

\* agg_rx.recv() returns Err: the channel is empty and every Sender is gone,
\* the supervisor's agg_tx and the clone each read_capped task owns until it
\* returns
recv_closed(chan, agg_tx, sts) ==
    chan = << >> /\ ~agg_tx /\ \A s \in DOMAIN sts : ~sts[s].aggregate_tx

join_ready_unfinished(st) == TRUE
\* handle.await resolves once the read_capped task has returned
join_ready(st) == st.state \in {"eof", "failed"}

Pending == [kind |-> "pending"]
NoRace == [winner |-> "none", kill_failed |-> FALSE]
\* a read_capped task before its first read
NewReader ==
    [state |-> "reading", holding |-> FALSE, chunks |-> << >>, offset |-> 0,
     buf |-> << >>, truncated |-> FALSE, emitted_deltas |-> 0, aggregate_tx |-> TRUE]
IdleReader == [NewReader EXCEPT !.state = "idle", !.aggregate_tx = FALSE]

execInputs == <<platform, sandbox_type, linux_exe, output_limit, stdout_stream, child_fate,
                pipe_reads>>

\* What the command does when nothing stops it: a signal only ends it on unix.
ChildFates(p) ==
    [cause : {"exit"}, code : ChildExitCodes]
        \cup (IF p = "unix" THEN [cause : {"signal"}, signal : ChildSignals] ELSE {})

InitExec ==
    /\ platform \in Platforms
    /\ sandbox_type \in SandboxTypes
    /\ linux_exe \in BOOLEAN
    /\ output_limit \in OutputLimits
    /\ stdout_stream \in BOOLEAN
    /\ child_fate \in ChildFates(platform)
    /\ pipe_reads \in 0..MaxReads
    /\ pc = "start"
    /\ child = [state |-> "none"]
    /\ kill_issued = FALSE
    /\ race = NoRace
    /\ streams = [s \in StreamNames |-> IdleReader]
    /\ agg_chan = << >>
    /\ agg_received = << >>
    /\ deltas = << >>
    /\ raw_output = None
    /\ outcome = Pending

\* An early return of process_exec_tool_call or of consume_truncated_output.
Return(o) ==
    /\ outcome' = o
    /\ pc' = "done"

\* The spawn arm of the match on sandbox_type; LinuxSeccomp needs the executable.
\* consume_truncated_output then spawns the two read_capped tasks.
Spawn ==
    /\ pc = "start"
    /\ IF sandbox_type = "LinuxSeccomp" /\ ~linux_exe THEN
           /\ Return([kind |-> "LandlockSandboxExecutableNotProvided"])
           /\ UNCHANGED <<child, streams>>
       ELSE
           \/ /\ Return([kind |-> "Io"])
              /\ UNCHANGED <<child, streams>>
           \/ /\ child' = [state |-> "running"]
              /\ streams' = [s \in StreamNames |-> NewReader]
              /\ pc' = "racing"
              /\ UNCHANGED outcome
    /\ UNCHANGED <<execInputs, kill_issued, race, agg_chan, agg_received, deltas, raw_output>>

\* The child ends on its own.
ChildExits ==
    /\ child.state = "running"
    /\ child' = IF child_fate.cause = "exit"
                THEN [state |-> "exited", status |-> exited_status(platform, child_fate.code),
                      cause |-> "exit", code |-> child_fate.code]
                ELSE [state |-> "exited", status |-> signaled_status(child_fate.signal),
                      cause |-> "signal", signal |-> child_fate.signal]
    /\ UNCHANGED <<execInputs, pc, kill_issued, race, streams, agg_chan, agg_received,
                   deltas, raw_output, outcome>>

\* The kill issued by start_kill takes effect.
ChildKilled ==
    /\ child.state = "running"
    /\ kill_issued
    /\ child' = [state |-> "exited", status |-> killed_status(platform), cause |-> "kill"]
    /\ UNCHANGED <<execInputs, pc, kill_issued, race, streams, agg_chan, agg_received,
                   deltas, raw_output, outcome>>

\* select!: timeout(child.wait()) resolves with the child's status, or wait fails.
WaitCompletes ==
    /\ pc = "racing"
    /\ child.state = "exited"
    /\ \/ /\ race' = [winner |-> "wait", kill_failed |-> FALSE,
                      exit_status |-> child.status, timed_out |-> FALSE]
          /\ pc' = "join_stdout"
          /\ UNCHANGED outcome
       \/ /\ Return([kind |-> "Io"])
          /\ UNCHANGED race
    /\ UNCHANGED <<execInputs, child, kill_issued, streams, agg_chan, agg_received, deltas,
                   raw_output>>

\* select!: the timeout elapses while the child is still running.
TimeoutFires ==
    /\ pc = "racing"
    /\ child.state = "running"
    /\ kill_issued' = TRUE
    /\ \/ /\ race' = [winner |-> "timeout", kill_failed |-> FALSE,
                      exit_status |-> synthetic_exit_status(EXIT_CODE_SIGNAL_BASE + TIMEOUT_CODE),
                      timed_out |-> TRUE]
          /\ pc' = "join_stdout"
          /\ UNCHANGED outcome
       \/ /\ Return([kind |-> "Io"])
          /\ race' = [winner |-> "timeout", kill_failed |-> TRUE]
    /\ UNCHANGED <<execInputs, child, streams, agg_chan, agg_received, deltas, raw_output>>

\* select!: tokio::signal::ctrl_c() resolves first.
CtrlC ==
    /\ pc = "racing"
    /\ kill_issued' = TRUE
    /\ \/ /\ race' = [winner |-> "ctrl_c", kill_failed |-> FALSE,
                      exit_status |-> synthetic_exit_status(EXIT_CODE_SIGNAL_BASE + SIGKILL_CODE),
                      timed_out |-> FALSE]
          /\ pc' = "join_stdout"
          /\ UNCHANGED outcome
       \/ /\ Return([kind |-> "Io"])
          /\ race' = [winner |-> "ctrl_c", kill_failed |-> TRUE]
    /\ UNCHANGED <<execInputs, child, streams, agg_chan, agg_received, deltas, raw_output>>


\* The two read_capped tasks are followed until the call returns: what a task
\* left behind by an early return still reads reaches nobody.
\* data read so far from the two pipes
reads_made == Len(streams["stdout"].chunks) + Len(streams["stderr"].chunks)

\* read_capped, first half of one loop iteration: reader.read returns n > 0
\* bytes, and the chunk is sent to the subscriber unless the delta cap is hit.
ReadChunk(s, n) ==
    /\ streams[s].state = "reading"
    /\ ~streams[s].holding
    /\ pc # "done"
    /\ reads_made < pipe_reads
    /\ LET st == streams[s]
           chunk == [stream |-> s, lo |-> st.offset + 1, hi |-> st.offset + n]
           emit == delta_allowed(stdout_stream, st.emitted_deltas)
       IN  /\ deltas' = IF emit THEN send(deltas, chunk) ELSE deltas
           /\ streams' = [streams EXCEPT ![s] =
                  [st EXCEPT !.holding = TRUE,
                             !.chunks = Append(st.chunks, chunk),
                             !.offset = st.offset + n,
                             !.emitted_deltas = IF emit THEN st.emitted_deltas + 1
                                                ELSE st.emitted_deltas]]
    /\ UNCHANGED <<execInputs, pc, child, kill_issued, race, agg_chan, agg_received,
                   raw_output, outcome>>

\* read_capped, second half of the iteration: the chunk goes to the aggregator
\* and its fitting prefix into buf.
ForwardChunk(s) ==
    /\ streams[s].state = "reading"
    /\ streams[s].holding
    /\ pc # "done"
    /\ LET st == streams[s]
           chunk == st.chunks[Len(st.chunks)]
           r == capture_chunk(st.buf, st.truncated, chunk,
                              ExecOutputLimit(output_limit).stream_max_bytes)
       IN  /\ agg_chan' = send(agg_chan, chunk)
           /\ streams' = [streams EXCEPT ![s] =
                  [st EXCEPT !.holding = FALSE, !.buf = r.buf, !.truncated = r.truncated]]
    /\ UNCHANGED <<execInputs, pc, child, kill_issued, race, agg_received, deltas,
                   raw_output, outcome>>

\* read_capped reaches EOF (n == 0) once the child has ended and the pipe is
\* closed, and returns its StreamOutput; its aggregate_tx is dropped with it.
StreamEof(s) ==
    /\ streams[s].state = "reading"
    /\ ~streams[s].holding
    /\ pc # "done"
    /\ child.state = "exited"
    /\ streams' = [streams EXCEPT ![s].state = "eof", ![s].aggregate_tx = FALSE]
    /\ UNCHANGED <<execInputs, pc, child, kill_issued, race, agg_chan, agg_received,
                   deltas, raw_output, outcome>>

\* read_capped: reader.read(&mut tmp).await? fails.
StreamFails(s) ==
    /\ streams[s].state = "reading"
    /\ ~streams[s].holding
    /\ pc # "done"
    /\ streams' = [streams EXCEPT ![s].state = "failed", ![s].aggregate_tx = FALSE]
    /\ UNCHANGED <<execInputs, pc, child, kill_issued, race, agg_chan, agg_received,
                   deltas, raw_output, outcome>>

\* let stdout = stdout_handle.await??;
JoinStdout ==
    /\ pc = "join_stdout"
    /\ join_ready(streams["stdout"])
    /\ IF streams["stdout"].state = "failed"
       THEN Return([kind |-> "Io"])
       ELSE pc' = "join_stderr" /\ UNCHANGED outcome
    /\ UNCHANGED <<execInputs, child, kill_issued, race, streams, agg_chan, agg_received,
                   deltas, raw_output>>

\* let stderr = stderr_handle.await??; then agg_tx is dropped and the
\* aggregate is drained: the loop takes every queued chunk and ends when recv
\* finds the channel closed, or waits for good on a Sender that is left. The
\* raw output is built and process_exec_tool_call classifies it.
JoinStderr ==
    /\ pc = "join_stderr"
    /\ join_ready(streams["stderr"])
    /\ IF streams["stderr"].state = "failed"
       THEN /\ Return([kind |-> "Io"])
            /\ UNCHANGED <<agg_chan, agg_received, raw_output>>
       ELSE IF ~recv_closed(<< >>, drop(TRUE), streams)
       THEN /\ agg_received' = agg_chan
            /\ agg_chan' = << >>
            /\ pc' = "recv"
            /\ UNCHANGED <<raw_output, outcome>>
       ELSE LET agg == drain(agg_chan, << >>, FALSE,
                             ExecOutputLimit(output_limit).aggregated_max_bytes)
                out(s) == [text |-> streams[s].buf,
                           truncated_by_bytes |-> streams[s].truncated]
            IN  /\ agg_received' = agg_chan
                /\ agg_chan' = << >>
                /\ raw_output' = Some([exit_status |-> race.exit_status,
                                       timed_out |-> race.timed_out,
                                       stdout |-> out("stdout"),
                                       stderr |-> out("stderr"),
                                       aggregated_output |-> agg])
                /\ Return(classify(platform, sandbox_type,
                       [exit_status |-> race.exit_status, timed_out |-> race.timed_out,
                        stdout_truncated |-> streams["stdout"].truncated,
                        stderr_truncated |-> streams["stderr"].truncated,
                        aggregated_truncated |-> agg.truncated_by_bytes]))
    /\ UNCHANGED <<execInputs, child, kill_issued, race, streams, deltas>>

(***************************************************************************)
(* exec.rs: the texts of the result. The capture model above names bytes by *)
(* their position; here a capture is given byte by byte, short captures     *)
(* standing for captures of any length, which this code does not look at.   *)
(***************************************************************************)
\* The bytes of a capture: an ASCII letter, a line feed, and the two bytes of
\* a two-byte UTF-8 character, which a cut at the byte cap can separate.
Bytes == {"a", "\n", "xC3", "xA9"}
ByteTexts == { << >> } \cup { <<b>> : b \in Bytes } \cup { <<b, c>> : b \in Bytes, c \in Bytes }
REPLACEMENT_CHARACTER == "uFFFD"

RECURSIVE from_utf8_lossy(_)
\* String::from_utf8_lossy: a byte that is not part of a well-formed
\* character becomes U+FFFD
from_utf8_lossy(bytes) ==
    IF bytes = << >> THEN << >>
    ELSE IF Head(bytes) = "xC3" /\ Len(bytes) >= 2 /\ bytes[2] = "xA9"
         THEN <<"e-acute">> \o from_utf8_lossy(Tail(Tail(bytes)))
    ELSE IF Head(bytes) \in {"xC3", "xA9"}
         THEN <<REPLACEMENT_CHARACTER>> \o from_utf8_lossy(Tail(bytes))
    ELSE <<Head(bytes)>> \o from_utf8_lossy(Tail(bytes))

\* StreamOutput<Vec<u8>>::from_utf8_lossy
stream_from_utf8_lossy(output) ==
    [text |-> from_utf8_lossy(output.text), truncated_by_bytes |-> output.truncated_by_bytes]

\* output.text.ends_with('\n')
ends_with_newline(text) == text # << >> /\ text[Len(text)] = "\n"

append_truncation_notice_bare(output, notice) ==
    IF ~output.truncated_by_bytes THEN output
    ELSE [output EXCEPT !.text = Append(@, notice)]
\* append_truncation_notice: a text is the sequence of its characters, the
\* notice pushed onto it being one element
append_truncation_notice(output, notice) ==
    IF ~output.truncated_by_bytes THEN output
    ELSE LET text == IF output.text # << >> /\ ~ends_with_newline(output.text)
                     THEN Append(output.text, "\n")
                     ELSE output.text
         IN  [output EXCEPT !.text = Append(text, notice)]

\* process_exec_tool_call, from the three from_utf8_lossy calls to the three
\* append_truncation_notice calls
result_texts(raw, limit) ==
    LET stdout == stream_from_utf8_lossy(raw.stdout)
        stderr == stream_from_utf8_lossy(raw.stderr)
        aggregated_output ==
            [stream_from_utf8_lossy(raw.aggregated_output) EXCEPT
                !.truncated_by_bytes = @ \/ stdout.truncated_by_bytes
                                         \/ stderr.truncated_by_bytes]
    IN  [stdout |-> append_truncation_notice(stdout, limit.truncation_notice),
         stderr |-> append_truncation_notice(stderr, limit.truncation_notice),
         aggregated_output |->
             append_truncation_notice(aggregated_output, limit.truncation_notice)]

\* the raw outputs the match is given
RawCaptures(texts) == [text : texts, truncated_by_bytes : BOOLEAN]
RawOutputs ==
    [exit_status : {exited_status("unix", 0), exited_status("unix", 1),
                    signaled_status(SIGKILL_CODE)},
     timed_out : BOOLEAN,
     stdout : RawCaptures(ByteTexts),
     stderr : RawCaptures({ << >>, <<"a">> }),
     aggregated_output : RawCaptures({ << >>, <<"a", "\n">>, <<"a", "xC3">> })]

InitResult ==
    /\ result_raw \in RawOutputs
    /\ result_limit \in OutputLimits
    /\ result_sandbox \in {"None", "LinuxSeccomp"}
    /\ exec_result = Pending

\* The Ok(raw_output) arm of the match on raw_output_result, on unix.
BuildResult ==
    /\ exec_result = Pending
    /\ LET c == classify("unix", result_sandbox,
                     [exit_status |-> result_raw.exit_status,
                      timed_out |-> result_raw.timed_out,
                      stdout_truncated |-> result_raw.stdout.truncated_by_bytes,
                      stderr_truncated |-> result_raw.stderr.truncated_by_bytes,
                      aggregated_truncated |-> result_raw.aggregated_output.truncated_by_bytes])
           t == result_texts(result_raw, ExecOutputLimit(result_limit))
       IN  exec_result' =
               IF c.kind = "Signal" THEN c
               ELSE [kind |-> c.kind,
                     output |-> [exit_code |-> c.output.exit_code,
                                 timed_out |-> c.output.timed_out,
                                 stdout |-> t.stdout,
                                 stderr |-> t.stderr,
                                 aggregated_output |-> t.aggregated_output]]
    /\ UNCHANGED <<result_raw, result_limit, result_sandbox>>

(***************************************************************************)
(* exec.rs: the choice of the output limit from the command. A String is    *)
(* the sequence of its characters.                                          *)
(***************************************************************************)
RECURSIVE split(_, _, _)
\* str.split(sep): the pieces of text between the separators, cur being the
\* piece under construction
split(text, sep, cur) ==
    IF text = << >> THEN <<cur>>
    ELSE IF Head(text) = sep THEN <<cur>> \o split(Tail(text), sep, << >>)
    ELSE split(Tail(text), sep, Append(cur, Head(text)))

\* Path::file_name: the last component of the path, if it is a normal one;
\* repeated and trailing separators and "." components do not count
file_name(path) ==
    LET components == SelectSeq(split(path, "/", << >>),
                                LAMBDA c : c # << >> /\ c # <<".">>)
    IN  IF components = << >> THEN None
        ELSE IF components[Len(components)] = <<".", ".">> THEN None
        ELSE Some(components[Len(components)])

\* is_rg_program
is_rg_program(program) ==
    LET name == file_name(program)
    IN  name.some /\ name.val = <<"r", "g">>

\* characters that make a script more than a sequence of plain commands
ShellSyntax == {"$", "(", ")", "<", ">"}
\* the tokens that join the plain commands of a script
ShellOperators == { <<"&", "&">>, <<"|", "|">>, <<";">>, <<"|">> }

RECURSIVE plain_commands(_, _)
\* the commands of a tokenized script, cur being the command under
\* construction; None if a command is empty
plain_commands(tokens, cur) ==
    IF tokens = << >> THEN IF cur = << >> THEN None ELSE Some(<<cur>>)
    ELSE IF Head(tokens) \in ShellOperators
         THEN LET rest == plain_commands(Tail(tokens), << >>)
              IN  IF cur = << >> \/ ~rest.some THEN None ELSE Some(<<cur>> \o rest.val)
    ELSE plain_commands(Tail(tokens), Append(cur, Head(tokens)))

\* crate::bash::parse_bash_lc_plain_commands: for ["bash", "-lc", script] with
\* a script that is a sequence of plain commands, the commands as word lists
parse_bash_lc_plain_commands(command) ==
    IF Len(command) # 3 THEN None
    ELSE IF command[1] # <<"b", "a", "s", "h">> \/ command[2] # <<"-", "l", "c">> THEN None
    ELSE IF \E i \in 1..Len(command[3]) : command[3][i] \in ShellSyntax THEN None
    ELSE plain_commands(SelectSeq(split(command[3], " ", << >>), LAMBDA t : t # << >>), << >>)

command_invokes_ripgrep_first(command) ==
    LET all_commands == parse_bash_lc_plain_commands(command)
    IN  IF all_commands.some
        THEN is_rg_program(all_commands.val[1][1])
        ELSE command # << >> /\ is_rg_program(command[1])
\* command_invokes_ripgrep
command_invokes_ripgrep(command) ==
    LET all_commands == parse_bash_lc_plain_commands(command)
    IN  IF all_commands.some
        THEN IF Len(all_commands.val) # 1 THEN FALSE
             ELSE all_commands.val[1] # << >> /\ is_rg_program(all_commands.val[1][1])
        ELSE command # << >> /\ is_rg_program(command[1])

\* exec_output_limit_for_command
exec_output_limit_for_command(command) ==
    IF command_invokes_ripgrep(command)
    THEN ExecOutputLimit("ripgrep")
    ELSE ExecOutputLimit("generic")

\* The commands the choice is made for: a program alone, with an argument,
\* and with -lc or -c and a script.
LimitPrograms ==
    { <<"r", "g">>,
      <<"/", "u", "s", "r", "/", "b", "i", "n", "/", "r", "g">>,
      <<".", "/", "r", "g">>, <<"r", "g", "/">>,
      <<"r", "g", "x">>, <<"x", "r", "g">>, <<"l", "s">>,
      <<"b", "a", "s", "h">>, <<"z", "s", "h">>, << >>, <<"r", "g", "/", ".", ".">> }
LimitScripts ==
    { <<"r", "g", " ", "-", "n", " ", "x">>,
      <<"/", "u", "s", "r", "/", "b", "i", "n", "/", "r", "g", " ", "x">>,
      <<"l", "s">>,
      <<"r", "g", " ", "x", " ", "&", "&", " ", "l", "s">>,
      <<"l", "s", " ", ";", " ", "r", "g", " ", "x">>,
      <<"l", "s", " ", "|", " ", "r", "g", " ", "x">>,
      <<"r", "g", " ", "$", "(", "l", "s", ")">>,
      <<" ", " ", "r", "g", " ", " ", "x", " ">>,
      << >> }
LimitArguments ==
    { << >>, << <<"x">> >>, << <<"-", "l", "c">> >> }
      \cup { << <<"-", "l", "c">>, t >> : t \in LimitScripts }
      \cup { << <<"-", "c">>, t >> : t \in LimitScripts }
      \cup { << <<"-", "l", "c">>, <<"r", "g", " ", "x">>, <<"x">> >> }
LimitCommands == { << >> } \cup { <<p>> \o a : p \in LimitPrograms, a \in LimitArguments }

InitLimit ==
    /\ limit_command \in LimitCommands
    /\ limit_chosen = None

\* let output_limit = exec_output_limit_for_command(&command);
ChooseLimit ==
    /\ limit_chosen = None
    /\ limit_chosen' = Some(exec_output_limit_for_command(limit_command))
    /\ UNCHANGED limit_command

(***************************************************************************)
(* IntervalSet: the served line ranges of one file. session.rs and turn.rs  *)
(* hold the same code for it.                                              *)
(***************************************************************************)
\* usize::MAX, scaled down: the point at which saturating_add stops
USIZE_MAX == 7
Usize == 0..USIZE_MAX
\* usize::saturating_add
saturating_add(a, b) == Min(a + b, USIZE_MAX)

invalid_range_zero_only(start, end) == start = 0 \/ end = 0
\* if start == 0 || end == 0 || start > end { return ... }
invalid_range(start, end) == start = 0 \/ end = 0 \/ start > end

\* the statements after the loop of subtract
subtract_tail(cursor, end, uncovered) ==
    IF cursor <= end THEN Append(uncovered, <<cursor, end>>) ELSE uncovered

RECURSIVE subtract_loop(_, _, _, _)
\* for &(lo, hi) in &self.intervals { ... } of subtract, and what follows it
subtract_loop(ivs, cursor, end, uncovered) ==
    IF ivs = << >> THEN subtract_tail(cursor, end, uncovered)
    ELSE LET lo == Head(ivs)[1]
             hi == Head(ivs)[2]
         IN  IF hi < cursor THEN subtract_loop(Tail(ivs), cursor, end, uncovered)
             ELSE IF lo > end THEN subtract_tail(cursor, end, uncovered)
             ELSE LET gap_end == Min(lo - 1, end)
                      unc == IF lo > cursor /\ cursor <= gap_end
                             THEN Append(uncovered, <<cursor, gap_end>>)
                             ELSE uncovered
                  IN  IF hi >= cursor
                      THEN LET next == saturating_add(hi, 1)
                           IN  IF next > end THEN unc
                               ELSE subtract_loop(Tail(ivs), next, end, unc)
                      ELSE subtract_loop(Tail(ivs), cursor, end, unc)

\* IntervalSet::subtract
subtract(ivs, start, end) ==
    IF invalid_range(start, end) THEN << >>
    ELSE IF ivs = << >> THEN << <<start, end>> >>
    ELSE subtract_loop(ivs, start, end, << >>)

left_of_touching(hi, new_start) == hi < new_start
\* if hi.saturating_add(1) < new_start
left_of(hi, new_start) == saturating_add(hi, 1) < new_start

\* if lo > new_end.saturating_add(1)
right_of(lo, new_end) == lo > saturating_add(new_end, 1)

merged_end_past(new_end, hi) == IF saturating_add(hi, 1) > new_end THEN saturating_add(hi, 1) ELSE new_end
\* new_end = new_end.max(hi)
merged_end(new_end, hi) == IF hi > new_end THEN hi ELSE new_end

RECURSIVE insert_loop(_, _)
\* for &(lo, hi) in &self.intervals { ... } of insert, over the locals
\* acc = [merged, new_start, new_end, inserted]
insert_loop(ivs, acc) ==
    IF ivs = << >> THEN acc
    ELSE LET lo == Head(ivs)[1]
             hi == Head(ivs)[2]
         IN  IF left_of(hi, acc.new_start)
             THEN insert_loop(Tail(ivs), [acc EXCEPT !.merged = Append(@, <<lo, hi>>)])
             ELSE IF right_of(lo, acc.new_end)
             THEN insert_loop(Tail(ivs),
                      [acc EXCEPT !.merged =
                                      IF acc.inserted THEN Append(@, <<lo, hi>>)
                                      ELSE @ \o << <<acc.new_start, acc.new_end>>, <<lo, hi>> >>,
                                  !.inserted = TRUE])
             ELSE insert_loop(Tail(ivs),
                      [acc EXCEPT !.new_start = Min(@, lo),
                                  !.new_end = merged_end(@, hi)])

RECURSIVE sort_by_key(_)
\* merged.sort_by_key(|(lo, _)| *lo): a stable sort, here by insertion
sort_by_key(v) ==
    IF v = << >> THEN << >>
    ELSE LET rest == sort_by_key(SubSeq(v, 1, Len(v) - 1))
             x == v[Len(v)]
             keep == SelectSeq(rest, LAMBDA y : y[1] <= x[1])
             move == SelectSeq(rest, LAMBDA y : y[1] > x[1])
         IN  keep \o <<x>> \o move

\* IntervalSet::insert
insert(ivs, start, end) ==
    IF invalid_range(start, end) THEN ivs
    ELSE LET acc == insert_loop(ivs, [merged |-> << >>, new_start |-> start,
                                      new_end |-> end, inserted |-> FALSE])
             merged == IF acc.inserted THEN acc.merged
                       ELSE Append(acc.merged, <<acc.new_start, acc.new_end>>)
         IN  sort_by_key(merged)

NoIntervalOp == [op |-> "none"]

\* IntervalSet::default()
InitIntervals ==
    /\ intervals = << >>
    /\ intervals_last = NoIntervalOp

\* a call of insert(start, end)
Insert(start, end) ==
    /\ intervals' = insert(intervals, start, end)
    /\ intervals_last' = [op |-> "insert", start |-> start, end |-> end]

\* a call of subtract(start, end), which takes &self
Subtract(start, end) ==
    /\ intervals_last' = [op |-> "subtract", start |-> start, end |-> end,
                          result |-> subtract(intervals, start, end)]
    /\ UNCHANGED intervals

(***************************************************************************)
(* The code-range ledger: code_read_index of SessionState and of TurnState, *)
(* the same code in session.rs and in turn.rs. A HashMap is a function on   *)
(* the keys it holds.                                                       *)
(***************************************************************************)
\* end.saturating_sub(start).saturating_add(1)
range_len(start, end) == saturating_add(SatSub(end, start), 1)

RECURSIVE uncovered_len(_)
\* missing.iter().map(|(s, e)| e.saturating_sub(*s).saturating_add(1)).sum()
uncovered_len(missing) ==
    IF missing = << >> THEN 0
    ELSE range_len(Head(missing)[1], Head(missing)[2]) + uncovered_len(Tail(missing))

\* if uncovered_len < requested_len
overlap_seen(missing, start, end) == uncovered_len(missing) < range_len(start, end)

RECURSIVE compute_unserved_loop(_, _, _, _)
\* for &(start, end) in ranges { ... } of compute_unserved_code_ranges
compute_unserved_loop(ivs, ranges, uncovered, had_overlap) ==
    IF ranges = << >> THEN [uncovered |-> uncovered, had_overlap |-> had_overlap]
    ELSE LET start == Head(ranges)[1]
             end == Head(ranges)[2]
         IN  IF invalid_range(start, end)
             THEN compute_unserved_loop(ivs, Tail(ranges), uncovered, had_overlap)
             ELSE LET missing == subtract(ivs, start, end)
                  IN  compute_unserved_loop(ivs, Tail(ranges), uncovered \o missing,
                          had_overlap \/ overlap_seen(missing, start, end))

\* compute_unserved_code_ranges
compute_unserved_code_ranges(index, path, ranges) ==
    IF path \notin DOMAIN index
    THEN [uncovered |-> ranges, had_overlap |-> FALSE]
    ELSE compute_unserved_loop(index[path], ranges, << >>, FALSE)

RECURSIVE insert_each(_, _)
\* for &(start, end) in ranges { entry.insert(start, end); }
insert_each(ivs, ranges) ==
    IF ranges = << >> THEN ivs
    ELSE insert_each(insert(ivs, Head(ranges)[1], Head(ranges)[2]), Tail(ranges))

\* self.code_read_index.entry(path).or_insert_with(IntervalSet::default)
entry(index, path) == IF path \in DOMAIN index THEN index[path] ELSE << >>

\* record_served_code_ranges
record_served_code_ranges(index, path, ranges) ==
    IF ranges = << >> THEN index
    ELSE [p \in DOMAIN index \cup {path} |->
             IF p = path THEN insert_each(entry(index, path), ranges) ELSE index[p]]

(***************************************************************************)
(* SessionState: its ledger                                                 *)
(***************************************************************************)
\* ledger operations of one session
MaxLedgerCalls == 3
LedgerPaths == {"a.rs", "b.rs"}
\* The ranges the ledger model is called with: valid ones, one that reaches
\* usize::MAX, one with a zero endpoint and one that is reversed.
LedgerRanges == { <<1, 2>>, <<2, 3>>, <<5, 5>>, <<3, USIZE_MAX>>, <<0, 2>>, <<3, 1>> }
LedgerRequests == { << >> } \cup { <<r>> : r \in LedgerRanges }
                     \cup { <<r, q>> : r \in LedgerRanges, q \in LedgerRanges }
NoLedgerOp == [op |-> "none"]

\* SessionState::new: code_read_index: HashMap::new()
InitLedger ==
    /\ code_read_index = << >>
    /\ ledger_last = NoLedgerOp
    /\ ledger_calls = 0

\* SessionState::compute_unserved_code_ranges, which takes &self
session_compute_unserved_code_ranges(path, ranges) ==
    /\ ledger_calls < MaxLedgerCalls
    /\ ledger_last' = [op |-> "compute", path |-> path, ranges |-> ranges,
                       result |-> compute_unserved_code_ranges(code_read_index, path, ranges)]
    /\ ledger_calls' = ledger_calls + 1
    /\ UNCHANGED code_read_index

\* SessionState::record_served_code_ranges
session_record_served_code_ranges(path, ranges) ==
    /\ ledger_calls < MaxLedgerCalls
    /\ code_read_index' = record_served_code_ranges(code_read_index, path, ranges)
    /\ ledger_last' = [op |-> "record", path |-> path, ranges |-> ranges]
    /\ ledger_calls' = ledger_calls + 1

(***************************************************************************)
(* TurnState: its ledger, pending approvals and pending input               *)
(***************************************************************************)
\* What the turn model passes to these operations.
TurnPaths == {"a.rs"}
TurnRanges == { << <<1, 3>> >>, << <<2, 5>> >> }
ApprovalKeys == {"call-1"}
ReplySenders == {"tx-1", "tx-2"}
InputItems == {"item-1"}

\* TurnState::compute_unserved_code_ranges, which takes &self
turn_compute_unserved_code_ranges(path, ranges) ==
    /\ turn_calls < MaxTurnCalls
    /\ turn_last' = [op |-> "compute_unserved", used_before |-> used_bytes,
                     result |-> compute_unserved_code_ranges(turn_code_read_index, path, ranges)]
    /\ turn_calls' = turn_calls + 1
    /\ UNCHANGED <<used_bytes, metrics, granted_bytes, content_bytes, exhausted_calls,
                   turnHolders>>

\* TurnState::record_served_code_ranges
turn_record_served_code_ranges(path, ranges) ==
    /\ turn_calls < MaxTurnCalls
    /\ turn_code_read_index' = record_served_code_ranges(turn_code_read_index, path, ranges)
    /\ turn_last' = [op |-> "record_served", used_before |-> used_bytes]
    /\ turn_calls' = turn_calls + 1
    /\ UNCHANGED <<used_bytes, metrics, granted_bytes, content_bytes, exhausted_calls,
                   pending_approvals, pending_input>>

\* TurnState::insert_pending_approval: HashMap::insert returns the old value
insert_pending_approval(key, tx) ==
    /\ turn_calls < MaxTurnCalls
    /\ pending_approvals' = [k \in DOMAIN pending_approvals \cup {key} |->
                                IF k = key THEN tx ELSE pending_approvals[k]]
    /\ turn_last' = [op |-> "insert_pending_approval", used_before |-> used_bytes,
                     returned |-> IF key \in DOMAIN pending_approvals
                                  THEN Some(pending_approvals[key]) ELSE None]
    /\ turn_calls' = turn_calls + 1
    /\ UNCHANGED <<used_bytes, metrics, granted_bytes, content_bytes, exhausted_calls,
                   turn_code_read_index, pending_input>>

\* TurnState::remove_pending_approval
remove_pending_approval(key) ==
    /\ turn_calls < MaxTurnCalls
    /\ pending_approvals' = [k \in DOMAIN pending_approvals \ {key} |-> pending_approvals[k]]
    /\ turn_last' = [op |-> "remove_pending_approval", used_before |-> used_bytes,
                     returned |-> IF key \in DOMAIN pending_approvals
                                  THEN Some(pending_approvals[key]) ELSE None]
    /\ turn_calls' = turn_calls + 1
    /\ UNCHANGED <<used_bytes, metrics, granted_bytes, content_bytes, exhausted_calls,
                   turn_code_read_index, pending_input>>

\* TurnState::clear_pending
clear_pending ==
    /\ turn_calls < MaxTurnCalls
    /\ pending_approvals' = << >>
    /\ pending_input' = << >>
    /\ turn_last' = [op |-> "clear_pending", used_before |-> used_bytes]
    /\ turn_calls' = turn_calls + 1
    /\ UNCHANGED <<used_bytes, metrics, granted_bytes, content_bytes, exhausted_calls,
                   turn_code_read_index>>

\* TurnState::push_pending_input
push_pending_input(input) ==
    /\ turn_calls < MaxTurnCalls
    /\ pending_input' = Append(pending_input, input)
    /\ turn_last' = [op |-> "push_pending_input", used_before |-> used_bytes]
    /\ turn_calls' = turn_calls + 1
    /\ UNCHANGED <<used_bytes, metrics, granted_bytes, content_bytes, exhausted_calls,
                   turn_code_read_index, pending_approvals>>

\* TurnState::take_pending_input
take_pending_input ==
    /\ turn_calls < MaxTurnCalls
    /\ pending_input' = << >>
    /\ turn_last' = [op |-> "take_pending_input", used_before |-> used_bytes,
                     returned |-> pending_input]
    /\ turn_calls' = turn_calls + 1
    /\ UNCHANGED <<used_bytes, metrics, granted_bytes, content_bytes, exhausted_calls,
                   turn_code_read_index, pending_approvals>>

(***************************************************************************)
(* turn.rs: the mutex around TurnState. A task takes it with lock().await    *)
(* for one TurnState operation, or tries it with try_lock().                *)
(***************************************************************************)
LockTasks == {"task-1", "task-2", "task-3"}
\* The calls that lock the mutex: ActiveTurn::clear_pending, and the calls
\* that fill what it clears.
LockedCalls ==
    [op : {"clear_pending"}]
        \cup [op : {"insert_pending_approval"}, key : ApprovalKeys, tx : ReplySenders]
        \cup [op : {"push_pending_input"}, input : InputItems]
IdleTask == [at |-> "idle"]
\* the calls that are waiting for the mutex or hold it
in_flight == Cardinality({t \in LockTasks : lock_tasks[t].at # "idle"})

try_lock_barging(mutex) == TRUE
\* Mutex::try_lock: Ok when no task holds the mutex
try_lock(mutex) == ~mutex.some

\* ActiveTurn::default(): Arc::new(Mutex::new(TurnState::default()))
InitMutex ==
    /\ turn_state_mutex = None
    /\ lock_tasks = [t \in LockTasks |-> IdleTask]
    /\ mutex_last = [op |-> "none"]

\* self.turn_state.lock().await is reached: the task waits for the mutex
Lock(t, call) ==
    /\ lock_tasks[t].at = "idle"
    /\ turn_calls + in_flight < MaxTurnCalls
    /\ lock_tasks' = [lock_tasks EXCEPT ![t] = [at |-> "waiting", call |-> call]]
    /\ mutex_last' = [op |-> "lock", task |-> t]
    /\ UNCHANGED <<turn_state_mutex, varsTurn>>

\* lock().await resolves: the mutex is free and the task holds it
LockAcquired(t) ==
    /\ lock_tasks[t].at = "waiting"
    /\ ~turn_state_mutex.some
    /\ turn_state_mutex' = Some(t)
    /\ lock_tasks' = [lock_tasks EXCEPT ![t].at = "holding"]
    /\ mutex_last' = [op |-> "acquired", task |-> t]
    /\ UNCHANGED varsTurn

\* The holder calls the TurnState operation and drops the guard:
\* ts.clear_pending() in ActiveTurn::clear_pending
Unlock(t) ==
    /\ lock_tasks[t].at = "holding"
    /\ LET call == lock_tasks[t].call
       IN  /\ CASE call.op = "clear_pending" -> clear_pending
                 [] call.op = "insert_pending_approval" ->
                        insert_pending_approval(call.key, call.tx)
                 [] call.op = "push_pending_input" -> push_pending_input(call.input)
           /\ mutex_last' = [op |-> call.op, task |-> t]
    /\ turn_state_mutex' = None
    /\ lock_tasks' = [lock_tasks EXCEPT ![t] = IdleTask]

\* ActiveTurn::try_clear_pending_sync, called by a task in a synchronous
\* context
try_clear_pending_sync(t) ==
    /\ lock_tasks[t].at = "idle"
    /\ try_lock(turn_state_mutex) => turn_calls + in_flight < MaxTurnCalls
    /\ IF try_lock(turn_state_mutex)
       THEN /\ clear_pending
            /\ mutex_last' = [op |-> "try_clear_pending_sync", task |-> t, locked |-> TRUE]
       ELSE /\ mutex_last' = [op |-> "try_clear_pending_sync", task |-> t, locked |-> FALSE]
            /\ UNCHANGED varsTurn
    /\ UNCHANGED <<turn_state_mutex, lock_tasks>>

(***************************************************************************)
(* tool_read_code.rs: handle_read_code_tool_call. Line numbers are usize as  *)
(* in IntervalSet; byte counts stay far below usize::MAX and are written     *)
(* with plain + and -. A text is the sequence of its pieces (the header, a   *)
(* notice, a label, a line of the file), each with its length in bytes, the  *)
(* width of its characters and whether it ends in a line feed.               *)
(***************************************************************************)
DEFAULT_MAX_LINES == 160
DEFAULT_MAX_BYTES == 8 * 1024
SMALL_FILE_MAX_LINES == 400
SMALL_FILE_MAX_BYTES == 16 * 1024
TURN_OUTPUT_TRUNCATION_NOTICE ==
    "[turn output truncated after reaching 24 KiB; refine your request or use /relax]"

\* the number of decimal digits {n} is formatted with
decimal_len(n) == IF n < 10 THEN 1 ELSE IF n < 100 THEN 2 ELSE IF n < 1000 THEN 3 ELSE 4

Piece(kind, n, len, width, nl) ==
    [kind |-> kind, n |-> n, len |-> len, width |-> width, nl |-> nl, cut |-> FALSE]
RECURSIVE text_len(_)
\* text.as_bytes().len()
text_len(text) == IF text = << >> THEN 0 ELSE Head(text).len + text_len(Tail(text))
\* text.ends_with('\n')
text_ends_with_newline(text) == text # << >> /\ text[Len(text)].nl

\* The file the calls read: three lines of ASCII, one line of two-byte
\* characters, the last line without a line feed.
ReadPath == "a.rs"
line_slices ==
    << [len |-> 40, width |-> 1, nl |-> TRUE], [len |-> 41, width |-> 2, nl |-> TRUE],
       [len |-> 40, width |-> 1, nl |-> TRUE], [len |-> 30, width |-> 1, nl |-> FALSE] >>
\* raw_contents.split_inclusive('\n').collect().len()
line_count == Len(line_slices)
\* metadata.len()
metadata_len == text_len(line_slices)

\* normalize_ranges: an error for a zero endpoint, else the ranges with start
\* and end in order, sorted by start
normalize_ranges(ranges) ==
    IF \E i \in 1..Len(ranges) : ranges[i][1] = 0 \/ ranges[i][2] = 0
    THEN [ok |-> FALSE]
    ELSE [ok |-> TRUE,
          ranges |-> sort_by_key([i \in 1..Len(ranges) |->
                         IF ranges[i][2] < ranges[i][1]
                         THEN <<ranges[i][2], ranges[i][1]>>
                         ELSE ranges[i]])]

RECURSIVE merge_loop(_, _, _)
\* for &(start, end) in &ranges[1..] of merge_ranges
merge_loop(rest, current, merged) ==
    IF rest = << >> THEN Append(merged, current)
    ELSE IF Head(rest)[1] <= saturating_add(current[2], 1)
         THEN merge_loop(Tail(rest),
                         <<current[1], IF current[2] >= Head(rest)[2]
                                       THEN current[2] ELSE Head(rest)[2]>>,
                         merged)
         ELSE merge_loop(Tail(rest), Head(rest), Append(merged, current))

\* merge_ranges
merge_ranges(ranges) ==
    IF ranges = << >> THEN << >>
    ELSE LET sorted == sort_by_key(ranges)
         IN  merge_loop(Tail(sorted), Head(sorted), << >>)

\* apply_context; end + context is a plain addition of usize values
apply_context(ranges, context, count) ==
    LET widened(r) == << IF SatSub(r[1], context) >= 1 THEN SatSub(r[1], context) ELSE 1,
                         Min((r[2] + context) % (USIZE_MAX + 1), count) >>
        all == [i \in 1..Len(ranges) |-> widened(ranges[i])]
    IN  IF count = 0 THEN << >>
        ELSE merge_ranges(SelectSeq(all, LAMBDA r : r[1] <= r[2]))

RECURSIVE line_total(_)
\* .map(|(start, end)| end.saturating_sub(*start).saturating_add(1)).sum()
line_total(ranges) ==
    IF ranges = << >> THEN 0
    ELSE range_len(Head(ranges)[1], Head(ranges)[2]) + line_total(Tail(ranges))

actual_end_past(start, allowed) == start + allowed
\* let actual_end = start + allowed - 1, with plain usize arithmetic
actual_end_of(start, allowed) ==
    (((start + allowed) % (USIZE_MAX + 1)) - 1) % (USIZE_MAX + 1)

RECURSIVE enforce_line_cap_loop(_, _, _)
\* the loop of enforce_line_cap
enforce_line_cap_loop(ranges, rem, result) ==
    IF ranges = << >> THEN [result |-> result, truncated |-> FALSE]
    ELSE IF rem = 0 THEN [result |-> result, truncated |-> TRUE]
    ELSE LET start == Head(ranges)[1]
             end == Head(ranges)[2]
             allowed == Min(rem, range_len(start, end))
             actual_end == actual_end_of(start, allowed)
         IN  IF actual_end < end
             THEN [result |-> Append(result, <<start, actual_end>>), truncated |-> TRUE]
             ELSE enforce_line_cap_loop(Tail(ranges), SatSub(rem, allowed),
                                        Append(result, <<start, actual_end>>))

\* enforce_line_cap
enforce_line_cap(ranges, max_lines) == enforce_line_cap_loop(ranges, max_lines, << >>)

over_budget_by_line(used, len, max) == len > max
\* if used + len > max_bytes
over_budget(used, len, max) == used + len > max

RECURSIVE push_lines(_, _, _, _, _)
\* for line_idx in start..=end of build_content: the lines pushed and the
\* last line pushed
push_lines(lines, line_idx, end, acc, max) ==
    IF line_idx > end \/ line_idx > Len(lines) THEN acc
    ELSE IF over_budget(acc.used, lines[line_idx].len, max)
    THEN [acc EXCEPT !.truncated = TRUE]
    ELSE push_lines(lines, line_idx + 1, end,
             [content |-> Append(acc.content,
                                 Piece("line", line_idx, lines[line_idx].len,
                                       lines[line_idx].width, lines[line_idx].nl)),
              used |-> acc.used + lines[line_idx].len,
              actual_end |-> line_idx,
              truncated |-> acc.truncated],
             max)

\* format!("lines {start}-{end}:\n")
label(start, end) ==
    Piece("label", start, Len("lines ") + decimal_len(start) + Len("-") + decimal_len(end)
                          + Len(":") + 1, 1, TRUE)

RECURSIVE build_content_loop(_, _, _, _)
\* for &(start, end) in ranges of build_content
build_content_loop(ranges, lines, max, st) ==
    IF ranges = << >> THEN st
    ELSE LET start == Head(ranges)[1]
             end == Head(ranges)[2]
         IN  IF start < 1 \/ start > Len(lines)
             THEN build_content_loop(Tail(ranges), lines, max, st)
             ELSE LET separate == ~st.first_segment /\ ~text_ends_with_newline(st.content)
                      required == label(start, end).len + lines[start].len
                                    + (IF separate THEN 1 ELSE 0)
                  IN  IF st.used + required > max THEN [st EXCEPT !.truncated = TRUE]
                      ELSE LET opened ==
                                   (IF separate
                                    THEN Append(st.content, Piece("newline", 0, 1, 1, TRUE))
                                    ELSE st.content) \o <<label(start, end)>>
                               pushed == push_lines(lines, start, end,
                                             [content |-> opened,
                                              used |-> st.used + (IF separate THEN 1 ELSE 0)
                                                         + label(start, end).len,
                                              actual_end |-> start - 1,
                                              truncated |-> st.truncated],
                                             max)
                               after == [content |-> pushed.content,
                                         served |-> IF pushed.actual_end >= start
                                                    THEN Append(st.served,
                                                                <<start, pushed.actual_end>>)
                                                    ELSE st.served,
                                         used |-> pushed.used,
                                         first_segment |-> st.first_segment,
                                         truncated |-> pushed.truncated]
                           IN  IF pushed.truncated \/ pushed.actual_end < end
                               THEN [after EXCEPT !.truncated = TRUE]
                               ELSE build_content_loop(Tail(ranges), lines, max,
                                        [after EXCEPT !.first_segment = FALSE])

\* build_content
build_content(ranges, lines, max) ==
    build_content_loop(ranges, lines, max,
        [content |-> << >>, served |-> << >>, used |-> 0, first_segment |-> TRUE,
         truncated |-> FALSE])

RECURSIVE take_bytes_at_char_boundary(_, _)
\* take_bytes_at_char_boundary: the longest run of whole characters from the
\* start of the text that fits in max bytes
take_bytes_at_char_boundary(text, max) ==
    IF text = << >> THEN << >>
    ELSE IF Head(text).len <= max
         THEN <<Head(text)>> \o take_bytes_at_char_boundary(Tail(text), max - Head(text).len)
    ELSE LET keep == (max \div Head(text).width) * Head(text).width
         IN  IF keep = 0 THEN << >>
             ELSE <<[Head(text) EXCEPT !.len = keep, !.nl = FALSE, !.cut = TRUE]>>

\* truncate_string_to_bytes
truncate_string_to_bytes(text, max) ==
    IF max = 0 THEN << >>
    ELSE IF text_len(text) <= max THEN text
    ELSE take_bytes_at_char_boundary(text, max)

\* truncated_notice
truncated_notice(template, max) ==
    IF max = 0 \/ template = "" THEN << >>
    ELSE take_bytes_at_char_boundary(<<Piece("turn_notice", 0, Len(template), 1, FALSE)>>, max)

\* format!("path: {rel_path}\n")
path_header(rel_path) == Piece("header", 0, Len("path: ") + Len(rel_path) + 1, 1, TRUE)
\* "[notice] " + notice, with a line feed after it where the code pushes one
notice_line(text_bytes, nl) ==
    Piece("notice", 0, Len("[notice] ") + text_bytes + (IF nl THEN 1 ELSE 0), 1, nl)
already_provided_notice ==
    "all requested lines were already provided earlier in this session; nothing new to show"
exhausted_notice ==
    "byte budget exhausted before any new lines could be served; narrow the range or request /relax"

\* handle_read_code_tool_call from the ledger's answer to the output it is
\* about to record: an early return, or the output and the served ranges
compose_output(contextualized, uncovered_ranges, had_overlap, max_lines, max_bytes_limit) ==
    LET overlap_lines == SatSub(line_total(contextualized), line_total(uncovered_ranges))
        capped == enforce_line_cap(uncovered_ranges, max_lines)
        built == build_content(capped.result, line_slices, max_bytes_limit)
        notices ==
            (IF had_overlap /\ overlap_lines > 0
             THEN <<notice_line(Len("trimmed ") + decimal_len(overlap_lines)
                      + Len(" line(s) that were already served earlier in this session"),
                      TRUE)>>
             ELSE << >>)
            \o (IF capped.truncated
                THEN <<notice_line(Len("truncated to ") + decimal_len(max_lines)
                         + Len(" line(s); request /relax for a temporary increase"), TRUE)>>
                ELSE << >>)
            \o (IF built.truncated
                THEN <<notice_line(Len("truncated to ") + decimal_len(max_bytes_limit)
                         + Len(" byte(s); request /relax for a temporary increase"), TRUE)>>
                ELSE << >>)
        header == <<path_header(ReadPath)>> \o notices
    IN  IF uncovered_ranges = << >>
        THEN [returns |-> TRUE, ok |-> TRUE,
              text |-> <<path_header(ReadPath),
                         notice_line(Len(already_provided_notice), FALSE)>>]
        ELSE IF capped.result = << >>
        THEN [returns |-> TRUE, ok |-> FALSE, text |-> << >>]
        ELSE IF built.served = << >>
        THEN [returns |-> TRUE, ok |-> TRUE,
              text |-> <<path_header(ReadPath), notice_line(Len(exhausted_notice), FALSE)>>]
        ELSE [returns |-> FALSE,
              served_ranges |-> built.served,
              output |-> IF built.content = << >> THEN header
                         ELSE header \o <<Piece("newline", 0, 1, 1, TRUE)>> \o built.content]

\* handle_read_code_tool_call from the budget's decision to the text returned
budgeted_output(output, decision) ==
    IF ~decision.truncated THEN output
    ELSE LET kept == truncate_string_to_bytes(output, decision.allowed_content_bytes)
             notice == truncated_notice(TURN_OUTPUT_TRUNCATION_NOTICE, decision.notice_bytes)
         IN  IF notice = << >> THEN kept
             ELSE (IF text_ends_with_newline(kept) THEN kept
                   ELSE Append(kept, Piece("newline", 0, 1, 1, TRUE))) \o notice

\* The read_code calls of one session, and what they are called with: the
\* lines argument (a pair), the context and max_bytes.
ReadCalls == {1, 2}
ReadLines == { None, Some(<<1, 2>>), Some(<<2, 3>>), Some(<<4, 3>>), Some(<<0, 2>>),
               Some(<<6, 7>>) }
ReadContexts == {0, 1}
ReadMaxBytes == { None, Some(100), Some(50) }
\* what the other tools of the turn ask of the budget while the calls run
OtherToolBytes == {24400, 24576}

\* Session::compute_unserved_code_ranges, Session::record_served_code_ranges
\* and Session::reserve_tool_output_budget: each takes the mutex once and
\* calls the method of the state behind it.
sess_compute_unserved_code_ranges(path, ranges) ==
    compute_unserved_code_ranges(code_read_index, path, ranges)
sess_record_served_code_ranges(path, ranges) ==
    code_read_index' = record_served_code_ranges(code_read_index, path, ranges)
sess_reserve_tool_output_budget(desired_bytes, notice_len) ==
    reserve_tool_output(desired_bytes, notice_len)

\* what a call can be made with besides its lines: the path argument and
\* the path it resolves to, each the sequence of its characters, a symbol, and
\* what is found at the path
cwd == <<"/", "w">>
ReadPathArgs == { << >>, <<" ">>, <<"a">>, <<"/", "e">> }
ResolvedPaths == { <<"/", "w", "/", "a">>, <<"/", "w", "x">>, <<"/", "e">> }
ReadSymbols == { None, Some("main") }
ReadFiles == {"missing", "directory", "unreadable", "empty", "text"}

\* validate_within_workspace: path.starts_with(cwd), the components of base
\* being the first components of path
validate_within_workspace(path, base) ==
    LET components(q) == SelectSeq(split(q, "/", << >>), LAMBDA c : c # << >>)
        ps == components(path)
        bs == components(base)
    IN  /\ (path # << >> /\ Head(path) = "/") <=> (base # << >> /\ Head(base) = "/")
        /\ Len(bs) <= Len(ps)
        /\ SubSeq(ps, 1, Len(bs)) = bs

\* handle_read_code_tool_call before it looks at the lines asked for: the
\* error or the notice it returns at once, or None when it goes on
early_return(path, resolved_path, symbol, file) ==
    IF trim(path) = << >> THEN Some([ok |-> FALSE, text |-> << >>])
    ELSE IF symbol.some THEN Some([ok |-> FALSE, text |-> << >>])
    ELSE IF ~validate_within_workspace(resolved_path, cwd)
    THEN Some([ok |-> FALSE, text |-> << >>])
    ELSE IF file \in {"missing", "directory", "unreadable"}
    THEN Some([ok |-> FALSE, text |-> << >>])
    ELSE IF file = "empty"
    THEN Some([ok |-> TRUE,
               text |-> <<path_header(ReadPath), notice_line(Len("file is empty"), FALSE)>>])
    ELSE None

NewRead == [pc |-> "called"]
InitRead == reads = [c \in ReadCalls |-> NewRead]

ReadRefuse_recording(c, path, resolved_path, symbol, file) ==
    /\ reads[c].pc = "called"
    /\ early_return(path, resolved_path, symbol, file).some
    /\ reads' = [reads EXCEPT ![c] = [pc |-> "returned", ok |-> FALSE, text |-> << >>,
                                      recorded |-> << >>]]
    /\ sess_record_served_code_ranges(ReadPath, << <<1, 1>> >>)
    /\ UNCHANGED <<varsTurn, ledger_last, ledger_calls>>
\* A call that returns before it looks at the lines asked for: the path is
\* empty, a symbol is given, the path is outside the workspace, the file
\* cannot be read or the file is empty.
ReadRefuse(c, path, resolved_path, symbol, file) ==
    /\ reads[c].pc = "called"
    /\ LET early == early_return(path, resolved_path, symbol, file)
       IN  /\ early.some
           /\ reads' = [reads EXCEPT ![c] =
                  [pc |-> "returned", ok |-> early.val.ok, text |-> early.val.text,
                   recorded |-> << >>]]
    /\ UNCHANGED <<varsTurn, varsLedger>>

\* The call up to its first use of the session: the arguments are checked,
\* the file is read, the ranges are normalized and widened, and the ledger is
\* asked what of them is unserved (Session::compute_unserved_code_ranges, one
\* acquisition of the session's mutex).
ReadConsult(c, lines, context, max_bytes_arg) ==
    /\ reads[c].pc = "called"
    /\ LET requested == normalize_ranges(
                            IF lines.some THEN <<lines.val>>
                            ELSE << <<1, IF line_count >= 1 THEN line_count ELSE 1>> >>)
           contextualized == apply_context(requested.ranges, context, line_count)
           small_file_allowance == metadata_len <= SMALL_FILE_MAX_BYTES
                                     /\ line_count <= SMALL_FILE_MAX_LINES
           max_lines == IF small_file_allowance THEN SMALL_FILE_MAX_LINES
                        ELSE DEFAULT_MAX_LINES
           requested_max_bytes == IF max_bytes_arg.some THEN max_bytes_arg.val
                                  ELSE DEFAULT_MAX_BYTES
           max_bytes_limit == IF small_file_allowance
                              THEN Min(requested_max_bytes, SMALL_FILE_MAX_BYTES)
                              ELSE Min(requested_max_bytes, DEFAULT_MAX_BYTES)
           answer == sess_compute_unserved_code_ranges(ReadPath, contextualized)
       IN  reads' = [reads EXCEPT ![c] =
               IF ~requested.ok \/ contextualized = << >>
               THEN [pc |-> "returned", ok |-> FALSE, text |-> << >>, recorded |-> << >>]
               ELSE [pc |-> "consulted",
                     contextualized |-> contextualized,
                     max_lines |-> max_lines,
                     max_bytes_limit |-> max_bytes_limit,
                     uncovered_ranges |-> answer.uncovered,
                     had_overlap |-> answer.had_overlap]]
    /\ UNCHANGED <<varsTurn, varsLedger>>

\* The call from the ledger's answer to its second use of the session: it
\* returns a notice or an error, or builds its output and records the served
\* ranges (Session::record_served_code_ranges, one acquisition).
ReadRecord(c) ==
    /\ reads[c].pc = "consulted"
    /\ LET r == reads[c]
           composed == compose_output(r.contextualized, r.uncovered_ranges, r.had_overlap,
                                      r.max_lines, r.max_bytes_limit)
       IN  IF composed.returns
           THEN /\ reads' = [reads EXCEPT ![c] =
                       [pc |-> "returned", ok |-> composed.ok, text |-> composed.text,
                        recorded |-> << >>]]
                /\ UNCHANGED code_read_index
           ELSE /\ sess_record_served_code_ranges(ReadPath, composed.served_ranges)
                /\ reads' = [reads EXCEPT ![c] =
                       [pc |-> "recorded", output |-> composed.output,
                        recorded |-> composed.served_ranges]]
    /\ UNCHANGED <<varsTurn, ledger_last, ledger_calls>>

\* The call from its third use of the session to its return: the turn budget
\* is asked for the output's bytes (Session::reserve_tool_output_budget, which
\* calls TurnState::reserve_tool_output of the active turn), and the output is
\* cut to what it grants.
ReadReserve(c) ==
    /\ reads[c].pc = "recorded"
    /\ sess_reserve_tool_output_budget(text_len(reads[c].output),
                                       Len(TURN_OUTPUT_TRUNCATION_NOTICE))
    /\ reads' = [reads EXCEPT ![c] =
           [pc |-> "returned", ok |-> TRUE,
            text |-> budgeted_output(reads[c].output, turn_last'),
            recorded |-> reads[c].recorded]]
    /\ UNCHANGED varsLedger

\* Another tool of the turn reserves output bytes.
OtherToolReserves(desired_bytes) ==
    /\ reserve_tool_output(desired_bytes, Len(TURN_OUTPUT_TRUNCATION_NOTICE))
    /\ UNCHANGED <<varsLedger, varsRead>>

(***************************************************************************)
(* tool_read_code.rs: enforce_line_cap, build_content and apply_context,    *)
(* each called on its own with arguments drawn from bounded sets.           *)
(***************************************************************************)
\* the largest max_bytes a build_content call is given
MaxBuildBytes == 200
\* the (start, end) with 1 <= start <= end <= n
ValidRanges(n) == {r \in (1..n) \X (1..n) : r[1] <= r[2]}
\* the lists of at most two ranges of S
RangeLists(S) == { << >> } \cup { <<r>> : r \in S } \cup { <<r, q>> : r \in S, q \in S }
CapRanges ==
    RangeLists(ValidRanges(USIZE_MAX))
        \cup { <<r, q, t>> : r \in {<<1, 2>>}, q \in {<<4, 4>>, <<4, 5>>}, t \in {<<6, 7>>, <<7, 7>>} }
BuildRanges ==
    RangeLists(ValidRanges(line_count))
        \cup { <<r, q, t>> : r \in {<<1, 1>>, <<4, 4>>}, q \in {<<2, 3>>, <<3, 3>>}, t \in {<<4, 4>>, <<1, 2>>} }
CallInputs ==
    [fn : {"enforce_line_cap"}, ranges : CapRanges, max_lines : Usize]
        \cup [fn : {"build_content"}, ranges : BuildRanges, max_bytes : 0..MaxBuildBytes]
        \cup [fn : {"apply_context"}, ranges : RangeLists(ValidRanges(USIZE_MAX)),
               context : Usize, line_count : 1..USIZE_MAX]

InitCalls ==
    /\ call_args \in CallInputs
    /\ call_result = None

\* a call of enforce_line_cap(&ranges, max_lines)
CallEnforceLineCap ==
    /\ call_args.fn = "enforce_line_cap"
    /\ call_result = None
    /\ call_result' = Some(enforce_line_cap(call_args.ranges, call_args.max_lines))
    /\ UNCHANGED call_args

\* a call of build_content(&ranges, &line_slices, max_bytes)
CallBuildContent ==
    /\ call_args.fn = "build_content"
    /\ call_result = None
    /\ call_result' = Some(build_content(call_args.ranges, line_slices, call_args.max_bytes))
    /\ UNCHANGED call_args

\* a call of apply_context(&ranges, context, line_count)
CallApplyContext ==
    /\ call_args.fn = "apply_context"
    /\ call_result = None
    /\ call_result' = Some(apply_context(call_args.ranges, call_args.context,
                                         call_args.line_count))
    /\ UNCHANGED call_args

(***************************************************************************)
(* Claims about the turn budget                                            *)
(***************************************************************************)

\* C1: used_bytes never decreases (every operation leaves it at or above its
\* value before the operation), it never exceeds max_bytes, and drain_metrics
\* leaves it exactly as it was.
C1_BudgetBoundMonotone ==
    /\ used_bytes <= max_bytes
    /\ turn_last.op # "none" => used_bytes >= turn_last.used_before
    /\ turn_last.op = "drain" => used_bytes = turn_last.used_before

\* C1 witness: a reserve made on an exhausted budget granted a notice and
\* left used_bytes at max_bytes.
C1_Witness ==
    /\ turn_last.op = "reserve"
    /\ turn_last.used_before = max_bytes
    /\ turn_last.notice_bytes > 0
    /\ used_bytes = max_bytes

\* C2 (as claimed): the bytes granted over the turn, content plus notices,
\* never exceed max_bytes.
C2_GrantedWithinCap == granted_bytes <= max_bytes

\* C2 (amended): the content bytes granted over the turn never exceed
\* max_bytes, and content plus notices exceed it by at most the notice reserve
\* (128 bytes) for every reserve call made on an already exhausted budget.
C2_GrantedWithinCapPlusNotices ==
    /\ content_bytes <= max_bytes
    /\ granted_bytes <= max_bytes + TURN_OUTPUT_NOTICE_RESERVE_BYTES * exhausted_calls

\* C2 witness: the turn has granted more than max_bytes.
C2_Witness == granted_bytes > max_bytes /\ exhausted_calls > 0

\* C3: the decision of every reserve call is the one the three cases
\* prescribe, from remaining = max_bytes - used_bytes before the call.
C3_ReserveDecision ==
    turn_last.op = "reserve" =>
        LET rem == max_bytes - turn_last.used_before
            d == turn_last.desired
            cap == IF turn_last.notice_len < 128 THEN turn_last.notice_len ELSE 128
        IN  /\ d = 0 =>
                /\ turn_last.allowed_content_bytes = 0
                /\ turn_last.notice_bytes = 0
                /\ ~turn_last.truncated
                /\ used_bytes = turn_last.used_before
                /\ metrics = turn_last.metrics_before
            /\ (0 < d /\ d <= rem) =>
                /\ turn_last.allowed_content_bytes = d
                /\ turn_last.notice_bytes = 0
                /\ ~turn_last.truncated
                /\ used_bytes = turn_last.used_before + d
            /\ (0 < d /\ d > rem) =>
                /\ turn_last.truncated
                /\ rem = 0 =>
                    /\ turn_last.allowed_content_bytes = 0
                    /\ turn_last.notice_bytes = cap
                /\ rem > 0 =>
                    /\ turn_last.notice_bytes = (IF rem < cap THEN rem ELSE cap)
                    /\ turn_last.allowed_content_bytes = rem - turn_last.notice_bytes

\* C3 witness: a truncated reserve on an exhausted budget whose notice is
\* longer than the reserve.
C3_Witness ==
    /\ turn_last.op = "reserve"
    /\ turn_last.truncated
    /\ turn_last.used_before = max_bytes
    /\ turn_last.notice_len > 128

\* C4: every reserve call adds desired - allowed_content_bytes to
\* bytes_trimmed, in the truncated and in the non-truncated path.
C4_TrimmedIsDesiredMinusAllowed ==
    turn_last.op = "reserve" =>
        metrics.bytes_trimmed - turn_last.metrics_before.bytes_trimmed
            = turn_last.desired - turn_last.allowed_content_bytes

\* C4 witness: a truncated reserve that granted both content and a notice.
C4_Witness ==
    /\ turn_last.op = "reserve"
    /\ turn_last.truncated
    /\ turn_last.allowed_content_bytes > 0
    /\ turn_last.notice_bytes > 0

\* C25: drain_metrics returns the five counters as they stood before it,
\* which are the ones accumulated since the previous drain, and leaves them at
\* zero, so that a drain following a drain returns all zeros; it leaves
\* used_bytes, the ledger, the pending approvals and the pending input as they
\* were.
C25_DrainStep ==
    turn_last'.op = "drain" =>
        /\ turn_last'.returned = metrics
        /\ metrics' = ZeroMetrics
        /\ turn_last.op = "drain" => turn_last'.returned = ZeroMetrics
        /\ UNCHANGED <<used_bytes, turn_code_read_index, pending_approvals, pending_input>>
C25_DrainMetrics == [][C25_DrainStep]_vars

\* C25 witness: a drain returned counters that were not zero while the ledger
\* and the pending approvals both held something.
C25_Witness ==
    /\ turn_last.op = "drain"
    /\ turn_last.returned.bytes_served > 0
    /\ metrics = ZeroMetrics
    /\ DOMAIN turn_code_read_index # {}
    /\ DOMAIN pending_approvals # {}

\* C28: a reserve with desired > 0 adds allowed + notice to bytes_served
\* (desired when it does not truncate); it adds desired - allowed to
\* bytes_trimmed and 1 to outputs_truncated exactly when it truncates; with
\* desired = 0 it changes no counter; it never changes commands_blocked or
\* log_tail_invocations. record_command_blocked and record_log_tail each add
\* 1 to their own counter and change no other.
C28_ReserveCounters ==
    turn_last.op = "reserve" =>
        LET before == turn_last.metrics_before
            d == turn_last.desired
        IN  /\ d = 0 => metrics = before
            /\ d > 0 =>
                  /\ metrics.bytes_served - before.bytes_served
                        = turn_last.allowed_content_bytes + turn_last.notice_bytes
                  /\ ~turn_last.truncated =>
                        /\ metrics.bytes_served - before.bytes_served = d
                        /\ metrics.bytes_trimmed = before.bytes_trimmed
                        /\ metrics.outputs_truncated = before.outputs_truncated
                  /\ turn_last.truncated =>
                        /\ metrics.bytes_trimmed - before.bytes_trimmed
                              = d - turn_last.allowed_content_bytes
                        /\ metrics.outputs_truncated = before.outputs_truncated + 1
            /\ metrics.commands_blocked = before.commands_blocked
            /\ metrics.log_tail_invocations = before.log_tail_invocations
C28_RecordStep ==
    /\ turn_last'.op = "blocked" =>
          metrics' = [metrics EXCEPT !.commands_blocked = @ + 1]
    /\ turn_last'.op = "log_tail" =>
          metrics' = [metrics EXCEPT !.log_tail_invocations = @ + 1]
C28_MetricsAccounting == [](C28_ReserveCounters) /\ [][C28_RecordStep]_vars

\* C28 witness: a truncating reserve made after a command was blocked and a
\* log tail was recorded.
C28_Witness ==
    /\ turn_last.op = "reserve"
    /\ turn_last.truncated
    /\ turn_last.desired > turn_last.allowed_content_bytes
    /\ metrics.commands_blocked = 1
    /\ metrics.log_tail_invocations = 1

\* C29: once a reserve has returned truncated, used_bytes equals max_bytes for
\* the rest of the turn; and every reserve with desired > 0 made on such a
\* budget returns truncated with allowed_content_bytes = 0 and
\* notice_bytes = min(128, notice_len).
C29_ExhaustedAfterTruncation ==
    /\ []((turn_last.op = "reserve" /\ turn_last.truncated) => [](used_bytes = max_bytes))
    /\ []((/\ turn_last.op = "reserve"
           /\ turn_last.desired > 0
           /\ turn_last.used_before = max_bytes)
          => /\ turn_last.truncated
             /\ turn_last.allowed_content_bytes = 0
             /\ turn_last.notice_bytes = Min(128, turn_last.notice_len))

\* C29 witness: a reserve truncated while budget remained, granting content,
\* and a later reserve found the budget exhausted.
C29_Witness ==
    /\ turn_last.op = "reserve"
    /\ turn_last.desired > 0
    /\ turn_last.used_before = max_bytes
    /\ content_bytes > 0
    /\ content_bytes < max_bytes
    /\ exhausted_calls = 1

\* a step that completes ActiveTurn::clear_pending: the task held the mutex,
\* and both collections are empty when it lets go
C40_ClearStep ==
    (mutex_last'.op = "clear_pending" /\ mutex_last' # mutex_last) =>
        /\ turn_state_mutex = Some(mutex_last'.task)
        /\ pending_approvals' = << >>
        /\ pending_input' = << >>

\* a step of try_clear_pending_sync: the task is where it was, waiting for
\* nothing; it cleared both collections if the mutex was free and left them
\* as they were if a task held it
C40_TryStep ==
    mutex_last'.op = "try_clear_pending_sync" =>
        /\ lock_tasks' = lock_tasks
        /\ turn_state_mutex' = turn_state_mutex
        /\ mutex_last'.locked <=> ~turn_state_mutex.some
        /\ IF turn_state_mutex.some
           THEN pending_approvals' = pending_approvals /\ pending_input' = pending_input
           ELSE pending_approvals' = << >> /\ pending_input' = << >>

\* C40: ActiveTurn::clear_pending waits for the TurnState mutex (it takes
\* it only when no task holds it, and touches nothing before) and leaves
\* pending approvals and pending input empty; try_clear_pending_sync never
\* waits: it clears both exactly when the mutex is free, and when another
\* task holds the mutex it returns leaving both unchanged.
C40_ClearPendingUnderContention ==
    /\ [][C40_ClearStep]_vars
    /\ [][C40_TryStep]_vars
    /\ [][(turn_state_mutex' # turn_state_mutex /\ turn_state_mutex'.some) =>
             ~turn_state_mutex.some]_vars
    /\ [][mutex_last'.op \in {"lock", "acquired"} =>
             pending_approvals' = pending_approvals /\ pending_input' = pending_input]_vars

\* C40 witness: while one task held the mutex and another waited for it in
\* clear_pending, try_clear_pending_sync returned without the lock, and the
\* pending approvals and input are still there.
C40_Witness ==
    /\ mutex_last.op = "try_clear_pending_sync"
    /\ ~mutex_last.locked
    /\ turn_state_mutex.some
    /\ pending_approvals # << >>
    /\ pending_input # << >>
    /\ \E t \in LockTasks :
          /\ lock_tasks[t].at = "waiting"
          /\ lock_tasks[t].call.op = "clear_pending"

(***************************************************************************)
(* Claims about the repeat-command breaker                                 *)
(***************************************************************************)

\* C5: a check of a (non-empty) command whose current run of identical
\* records, each at most the window after the previous one and the last at
\* most the window ago, has length N returns Some iff N >= max_repeats - 1, and
\* the block carries min(N, max_repeats), the 120 s window and the preview of
\* the last output; with no such run (never recorded, N = 0) it returns None.
C5_BreakerThreshold ==
    (breaker_last.op = "check" /\ breaker_last.command # << >>) =>
        LET run == streak[breaker_last.command]
        IN  /\ breaker_last.result.some <=> run.n >= 3 - 1
            /\ breaker_last.result.some =>
                 breaker_last.result.val =
                    [repeat_count |-> IF run.n < 3 THEN run.n ELSE 3,
                     window |-> 120,
                     last_excerpt |-> output_preview(run.output)]

\* C5 witness: a check blocked a command recorded more often than max_repeats.
C5_Witness ==
    /\ breaker_last.op = "check"
    /\ breaker_last.result.some
    /\ streak[breaker_last.command].n > DEFAULT_REPEAT_COMMAND_REPEATS

\* C6: every entry has 1 <= repeat_count <= max_repeats; a record on an
\* existing entry sets repeat_count to 1 when the fingerprint differs or more
\* than the window has passed since last_seen, and otherwise increments it up
\* to max_repeats; every record sets last_seen and last_excerpt; a check of an
\* entry with repeat_count 1 returns None.
C6_BreakerReset ==
    /\ [](\A c \in DOMAIN entries :
            entries[c].repeat_count >= 1 /\ entries[c].repeat_count <= 3)
    /\ [][(breaker_last'.op = "record" /\ breaker_last'.command # << >>) =>
            LET c == breaker_last'.command
                fp == fingerprint_output(breaker_last'.output)
            IN  /\ c \in DOMAIN entries'
                /\ entries'[c].last_seen = clock
                /\ entries'[c].last_excerpt = output_preview(breaker_last'.output)
                /\ entries'[c].last_fingerprint = fp
                /\ c \notin DOMAIN entries => entries'[c].repeat_count = 1
                /\ c \in DOMAIN entries =>
                     IF entries[c].last_fingerprint # fp \/ clock - entries[c].last_seen > 120
                     THEN entries'[c].repeat_count = 1
                     ELSE entries'[c].repeat_count =
                            (IF entries[c].repeat_count + 1 < 3
                             THEN entries[c].repeat_count + 1 ELSE 3)]_vars
    /\ [][(/\ breaker_last'.op = "check"
           /\ breaker_last'.command \in DOMAIN entries
           /\ entries[breaker_last'.command].repeat_count = 1) =>
            ~breaker_last'.result.some]_vars

\* C6 witness: a record made after time had passed has reset the count of an
\* entry that existed.
C6_Witness ==
    /\ breaker_last.op = "record"
    /\ breaker_last.existed
    /\ breaker_last.command \in DOMAIN entries
    /\ entries[breaker_last.command].repeat_count = 1
    /\ entries[breaker_last.command].last_seen > 0

\* What a check of c made now would answer: the command is blocked.
Blocked(c) == check(entries, c, clock).result.some

\* C7: a check made more than the window after last_seen (strictly) returns
\* None and removes the entry, and a check made within the window removes
\* nothing; a command without an entry has no live run, so blocking it again
\* takes max_repeats - 1 new identical records; and, as time advances, every
\* blocked command is eventually allowed again.
C7_BreakerExpiry ==
    /\ [][(breaker_last'.op = "check" /\ breaker_last'.command \in DOMAIN entries) =>
            LET c == breaker_last'.command
            IN  IF clock - entries[c].last_seen > 120
                THEN ~breaker_last'.result.some /\ c \notin DOMAIN entries'
                ELSE entries' = entries]_vars
    /\ [](\A c \in RealCommands : c \notin DOMAIN entries => ~Blocked(c))
    /\ []((breaker_last.op = "check" /\ breaker_last.result.some) =>
            streak[breaker_last.command].n >= 3 - 1)
    /\ \A c \in RealCommands : Blocked(c) ~> ~Blocked(c)

\* C7 witness: a check has removed an expired entry.
C7_Witness ==
    /\ breaker_last.op = "check"
    /\ breaker_last.existed
    /\ breaker_last.command \notin DOMAIN entries
    /\ ~breaker_last.result.some

\* a step that ends with check(cmd, now) as the last operation: within the
\* window it leaves every entry as it was, and otherwise it removes at most
\* the expired entry of cmd
C33_CheckStep ==
    breaker_last'.op = "check" =>
        LET c == breaker_last'.command
        IN  /\ (c \in DOMAIN entries /\ clock - entries[c].last_seen <= 120) =>
                  entries' = entries
            /\ \/ entries' = entries
               \/ /\ c \in DOMAIN entries
                  /\ clock - entries[c].last_seen > 120
                  /\ entries' = [d \in (DOMAIN entries) \ {c} |-> entries[d]]

\* a step other than a record of c, from a state where c is blocked to one
\* still within the window of c's entry: a check of c answers as before
C33_StaysBlocked ==
    \A c \in RealCommands :
        (/\ Blocked(c)
         /\ ~(breaker_last'.op = "record" /\ breaker_last'.command = c)
         /\ clock' - entries[c].last_seen <= 120) =>
            check(entries', c, clock').result = check(entries, c, clock).result

\* C33: a check made within the window modifies no entry (repeat_count,
\* last_seen, fingerprint, excerpt); the only mutation of a check is removing
\* the checked command's expired entry; so a blocked command, without a new
\* record of it, keeps being answered with Some and the same repeat_count
\* until the window expires.
C33_CheckReadOnly ==
    /\ [][C33_CheckStep]_vars
    /\ [][C33_StaysBlocked]_vars

\* C33 witness: a check made exactly the window after the last record still
\* blocked the command, and its entry is as the record left it.
C33_Witness ==
    /\ breaker_last.op = "check"
    /\ breaker_last.result.some
    /\ breaker_last.command \in DOMAIN entries
    /\ clock - entries[breaker_last.command].last_seen = 120

\* a step that ends with record(A, ...) or check(A, ...) as the last operation
C34_IsolatedStep ==
    breaker_last'.op \in {"check", "record"} =>
        LET a == breaker_last'.command
        IN  /\ \A b \in RealCommands \ {a} :
                  /\ b \in DOMAIN entries' <=> b \in DOMAIN entries
                  /\ b \in DOMAIN entries => entries'[b] = entries[b]
                  /\ check(entries', b, clock').result = check(entries, b, clock).result
            /\ a = << >> =>
                  /\ entries' = entries
                  /\ breaker_last'.op = "check" => breaker_last'.result = None

\* C34: record(A, ...) and check(A, ...) never create, change or remove the
\* entry of a command B # A, so what check(B, now) answers is the same before
\* and after; record and check with an empty command change nothing and the
\* check returns None.
C34_PerCommandIsolation == [][C34_IsolatedStep]_vars

\* C34 witness: a record has raised the count of one command while another
\* command is blocked.
C34_Witness ==
    /\ breaker_last.op = "record"
    /\ breaker_last.command \in DOMAIN entries
    /\ entries[breaker_last.command].repeat_count = 2
    /\ \E b \in RealCommands \ {breaker_last.command} : Blocked(b)

(***************************************************************************)
(* Claims about process_exec_tool_call                                     *)
(***************************************************************************)
\* C8 (as claimed): whenever the timeout branch of the race is taken, the call
\* returns the Timeout error with exit_code 124 and timed_out = true.
C8_TimeoutAlwaysReturnsTimeout ==
    (pc = "done" /\ race.winner = "timeout") =>
        /\ kill_issued
        /\ outcome.kind = "Timeout"
        /\ outcome.output.exit_code = 124
        /\ outcome.output.timed_out

\* C8 (amended): whenever the timeout branch of the race is taken, a kill is
\* issued; unless the kill or a pipe read fails (the call then returns that
\* I/O error), the status is the synthesized 128 + 64 and the call returns the
\* Timeout error with exit_code 124 and timed_out = true, for every sandbox
\* kind; it never returns Ok, SandboxDenied or Signal.
C8_TimeoutOutcome ==
    (pc = "done" /\ race.winner = "timeout") =>
        /\ kill_issued
        /\ outcome.kind \in {"Timeout", "Io"}
        /\ outcome.kind = "Io" <=>
             (race.kill_failed \/ streams["stdout"].state = "failed"
                               \/ streams["stderr"].state = "failed")
        /\ outcome.kind = "Timeout" =>
             /\ race.exit_status = 128 + 64
             /\ outcome.output.exit_code = 124
             /\ outcome.output.timed_out

\* C8 witness: a sandboxed call whose timeout fired returned the Timeout error.
C8_Witness ==
    /\ pc = "done"
    /\ race.winner = "timeout"
    /\ sandbox_type # "None"
    /\ outcome.kind = "Timeout"

\* C9: when the interrupt wins the race (and no I/O error ends the call), the
\* outcome carries exit_code 137 with timed_out = false, and it is neither
\* the Signal error nor the Timeout error.
C9_InterruptOutcome ==
    (pc = "done" /\ race.winner = "ctrl_c" /\ outcome.kind # "Io") =>
        /\ kill_issued
        /\ outcome.kind \in {"Ok", "Denied"}
        /\ outcome.output.exit_code = 128 + 9
        /\ ~outcome.output.timed_out

\* C10 (as claimed): a child that ends by signal S gives the Signal(S) error
\* without output for S # 64 and the Timeout error with exit_code 124 for
\* S = 64; a status without signal, the timeout not having fired, gives that
\* status's exit code with timed_out = false.
C10_SignalAlwaysClassified ==
    (pc = "done" /\ race.winner = "wait") =>
        /\ (child.cause = "signal" /\ child.signal # 64) =>
             outcome = [kind |-> "Signal", signal |-> child.signal]
        /\ (child.cause = "signal" /\ child.signal = 64) =>
             /\ outcome.kind = "Timeout"
             /\ outcome.output.exit_code = 124
             /\ outcome.output.timed_out
        /\ child.cause = "exit" =>
             /\ outcome.kind \in {"Ok", "Denied"}
             /\ outcome.output.exit_code = child.code
             /\ ~outcome.output.timed_out

\* C10 (amended): the same, unless a pipe read fails, in which case the call
\* returns that I/O error instead.
C10_SignalClassification ==
    (pc = "done" /\ race.winner = "wait") =>
        IF streams["stdout"].state = "failed" \/ streams["stderr"].state = "failed"
        THEN outcome.kind = "Io"
        ELSE
            /\ (child.cause = "signal" /\ child.signal # 64) =>
                 outcome = [kind |-> "Signal", signal |-> child.signal]
            /\ (child.cause = "signal" /\ child.signal = 64) =>
                 /\ outcome.kind = "Timeout"
                 /\ outcome.output.exit_code = 124
                 /\ outcome.output.timed_out
            /\ child.cause = "exit" =>
                 /\ outcome.kind \in {"Ok", "Denied"}
                 /\ outcome.output.exit_code = child.code
                 /\ ~outcome.output.timed_out

\* C10 witness: a child killed by signal 64 made the call return Timeout.
C10_Witness ==
    /\ pc = "done"
    /\ race.winner = "wait"
    /\ child.cause = "signal"
    /\ child.signal = 64
    /\ outcome.kind = "Timeout"

RECURSIVE run_end(_, _, _)
\* buf holds the bytes from, from + 1, ... of stream s in order: the position
\* after its last byte, or -1 when it holds anything else
run_end(buf, s, from) ==
    IF buf = << >> THEN from
    ELSE IF Head(buf).stream = s /\ Head(buf).lo = from /\ Head(buf).hi >= from
         THEN run_end(Tail(buf), s, Head(buf).hi + 1)
         ELSE -1

\* buf is exactly the first k bytes of stream s
first_bytes_of_stream(buf, s, k) == run_end(buf, s, 1) = k + 1

RECURSIVE first_bytes(_, _)
\* the first k bytes of a sequence of chunks
first_bytes(chan, k) ==
    IF k <= 0 \/ chan = << >> THEN << >>
    ELSE IF chunk_len(Head(chan)) <= k
         THEN <<Head(chan)>> \o first_bytes(Tail(chan), k - chunk_len(Head(chan)))
         ELSE <<[Head(chan) EXCEPT !.hi = Head(chan).lo + k - 1]>>

of_stream(chan, s) == SelectSeq(chan, LAMBDA c : c.stream = s)
is_prefix(a, b) == Len(a) <= Len(b) /\ a = SubSeq(b, 1, Len(a))
\* the chunks of stream s that read_capped has finished handling
handled(s) ==
    IF streams[s].holding
    THEN SubSeq(streams[s].chunks, 1, Len(streams[s].chunks) - 1)
    ELSE streams[s].chunks

\* C12: the capture of a stream never exceeds max_bytes, and once read_capped
\* has read the pipe to EOF, T bytes in all, the capture is exactly the first
\* min(T, max_bytes) bytes of the stream in order and truncated_by_bytes is
\* true exactly when T > max_bytes.
C12_StreamCapture ==
    \A s \in StreamNames :
        LET st == streams[s]
            max == ExecOutputLimit(output_limit).stream_max_bytes
        IN  /\ buf_len(st.buf) <= max
            /\ st.state = "eof" =>
                 /\ first_bytes_of_stream(st.chunks, s, st.offset)
                 /\ first_bytes_of_stream(st.buf, s, Min(st.offset, max))
                 /\ st.truncated <=> st.offset > max

\* C12 witness: a stream of three chunks was read to EOF and cut at the cap.
C12_Witness ==
    /\ streams["stdout"].state = "eof"
    /\ Len(streams["stdout"].chunks) = 3
    /\ streams["stdout"].truncated
    /\ buf_len(streams["stdout"].buf) = ExecOutputLimit(output_limit).stream_max_bytes

\* C13: every chunk read from either pipe reaches the aggregator, whatever
\* the stream cap and the delta cap did to it; the aggregated capture is the
\* first min(total, aggregated_max_bytes) bytes of the chunks the aggregator
\* received, and it is flagged truncated exactly when total exceeds the cap,
\* so an unflagged aggregate holds every byte of both streams.
C13_AggregateComplete ==
    LET max == ExecOutputLimit(output_limit).aggregated_max_bytes
        all == agg_received \o agg_chan
    IN  /\ pc # "done" => \A s \in StreamNames : of_stream(all, s) = handled(s)
        /\ raw_output.some =>
             LET agg == raw_output.val.aggregated_output
                 total == buf_len(agg_received)
             IN  /\ \A s \in StreamNames : of_stream(agg_received, s) = streams[s].chunks
                 /\ total = streams["stdout"].offset + streams["stderr"].offset
                 /\ agg.text = first_bytes(agg_received, Min(total, max))
                 /\ buf_len(agg.text) <= max
                 /\ agg.truncated_by_bytes <=> total > max
                 /\ ~agg.truncated_by_bytes => agg.text = agg_received

\* C13 witness: both streams wrote, and the aggregate the call returned is
\* complete and not flagged.
C13_Witness ==
    /\ raw_output.some
    /\ ~raw_output.val.aggregated_output.truncated_by_bytes
    /\ streams["stdout"].chunks # << >>
    /\ streams["stderr"].chunks # << >>

\* C14: the deltas of one call, stdout and stderr together, number at most
\* MAX_EXEC_OUTPUT_DELTAS_PER_CALL.
C14_DeltaCapPerCall == Len(deltas) <= MAX_EXEC_OUTPUT_DELTAS_PER_CALL

\* C15: for each stream the deltas are, in the order sent, the first chunks
\* read from its pipe, and the chunks in the aggregator channel are, in the
\* order queued, the chunks read from its pipe; every element of the
\* aggregate is a whole chunk of one of the two streams.
C15_PerStreamOrder ==
    LET all == agg_received \o agg_chan
    IN  /\ \A s \in StreamNames :
              /\ is_prefix(of_stream(deltas, s), streams[s].chunks)
              /\ is_prefix(of_stream(all, s), streams[s].chunks)
        /\ \A i \in 1..Len(all) :
              \E j \in 1..Len(streams[all[i].stream].chunks) :
                  all[i] = streams[all[i].stream].chunks[j]
        /\ Len(all) = Len(of_stream(all, "stdout")) + Len(of_stream(all, "stderr"))

\* C15 witness: two chunks of each stream went through; the subscriber saw a
\* stdout chunk first, the aggregator a stderr chunk.
C15_Witness ==
    /\ raw_output.some
    /\ Len(streams["stdout"].chunks) = 2
    /\ Len(streams["stderr"].chunks) = 2
    /\ Len(deltas) = 4
    /\ deltas[1].stream = "stdout"
    /\ agg_received[1].stream = "stderr"

KillWon == race.winner \in {"timeout", "ctrl_c"}
BothAtEof == \A s \in StreamNames : streams[s].state = "eof"
ReadFailed == \E s \in StreamNames : streams[s].state = "failed"

\* C16 (as claimed): a call whose timeout or interrupt branch ran returns only
\* after both capture tasks have read their pipes to EOF.
C16_ReturnsOnlyAfterEof == (pc = "done" /\ KillWon) => BothAtEof

\* C16 (amended): the timeout or interrupt branch issues the kill and moves on
\* in the same step, the child untouched and unawaited; the call then always
\* returns; and unless the kill or a pipe read failed (the call then returns
\* that I/O error) it returns only after both capture tasks have read their
\* pipes to EOF.
C16_ExecTermination ==
    /\ [][(kill_issued' /\ ~kill_issued) =>
             /\ child' = child
             /\ pc' \in {"join_stdout", "done"}
             /\ race'.winner \in {"timeout", "ctrl_c"}]_vars
    /\ [](KillWon => kill_issued)
    /\ KillWon ~> (pc = "done")
    /\ []((pc = "done" /\ KillWon) =>
             /\ outcome.kind = "Io" <=> (race.kill_failed \/ ReadFailed)
             /\ outcome.kind # "Io" => BothAtEof)

\* C16 witness: the timeout fired on a running child, the kill took effect,
\* both pipes reached EOF and the call returned.
C16_Witness ==
    /\ pc = "done"
    /\ race.winner = "timeout"
    /\ BothAtEof
    /\ child.state = "exited"
    /\ child.cause = "kill"
    /\ outcome.kind = "Timeout"

\* C30: in the result the call returns, aggregated_output.truncated_by_bytes
\* is true exactly when the bytes read from stdout and stderr together exceed
\* aggregated_max_bytes; it is true whenever the stdout or the stderr capture
\* reports truncation, and false when the combined output fits.
C30_AggregatedFlag ==
    outcome.kind \in {"Ok", "Timeout", "Denied"} =>
        LET total == streams["stdout"].offset + streams["stderr"].offset
            max == ExecOutputLimit(output_limit).aggregated_max_bytes
            out == outcome.output
        IN  /\ out.aggregated_truncated <=> total > max
            /\ (out.stdout_truncated \/ out.stderr_truncated) => out.aggregated_truncated
            /\ total <= max => ~out.aggregated_truncated

\* C30 witness: the call returned an aggregate flagged as truncated although
\* neither stream was: each stream fits its cap and the two together do not.
C30_Witness ==
    /\ outcome.kind = "Ok"
    /\ outcome.output.aggregated_truncated
    /\ ~outcome.output.stdout_truncated
    /\ ~outcome.output.stderr_truncated
    /\ streams["stdout"].offset > 0
    /\ streams["stderr"].offset > 0

\* the step in which the supervisor, both joins behind it, drains the channel
C31_DrainStep ==
    (pc = "join_stderr" /\ pc' # "join_stderr" /\ streams["stderr"].state # "failed") =>
        /\ \A s \in StreamNames : streams[s].state = "eof" /\ ~streams[s].aggregate_tx
        /\ agg_received' = agg_chan
        /\ agg_chan' = << >>
        /\ \A s \in StreamNames : of_stream(agg_received', s) = streams[s].chunks
        /\ pc' = "done"
        /\ raw_output'.some

\* C31: the supervisor drains the aggregator channel only after both
\* read_capped tasks have completed and its own sender is dropped; no sender
\* is left then, the receive loop takes every chunk that was sent and ends,
\* and the supervisor never waits for good on the channel.
C31_DrainTerminates ==
    /\ [][C31_DrainStep]_vars
    /\ [](pc # "recv")
    /\ [](agg_received # << >> => BothAtEof)
    /\ (pc = "join_stderr" /\ join_ready(streams["stderr"])) ~> (pc = "done")

\* C31 witness: the call returned after the drain took the chunks the two
\* tasks had sent, stderr's first.
C31_Witness ==
    /\ pc = "done"
    /\ raw_output.some
    /\ Len(agg_received) = DrainReads
    /\ agg_chan = << >>
    /\ agg_received[1].stream = "stderr"
    /\ agg_received[2].stream = "stdout"

\* the text a result is to hold for a capture: the capture as text, and the
\* notice after it when flagged, on a line of its own
NoticedText(text, flagged, notice) ==
    IF ~flagged THEN text
    ELSE IF text = << >> \/ text[Len(text)] = "\n" THEN text \o <<notice>>
    ELSE text \o <<"\n", notice>>

\* C26: in every result carried by Ok, Timeout or SandboxDenied, each of
\* stdout, stderr and aggregated_output is its capture as text, followed by
\* the truncation notice of the call's limit exactly when its
\* truncated_by_bytes is true, with a newline before the notice exactly when
\* the text is not empty and does not already end in one; a text that is not
\* flagged is the capture unchanged.
C26_TruncationNotice ==
    exec_result.kind \in {"Ok", "Timeout", "Denied"} =>
        LET notice == IF result_limit = "ripgrep" THEN RG_EXEC_TRUNCATION_NOTICE
                      ELSE GENERIC_EXEC_TRUNCATION_NOTICE
            out == exec_result.output
            law(o, raw) == o.text = NoticedText(from_utf8_lossy(raw.text),
                                                o.truncated_by_bytes, notice)
        IN  /\ law(out.stdout, result_raw.stdout)
            /\ law(out.stderr, result_raw.stderr)
            /\ law(out.aggregated_output, result_raw.aggregated_output)
            /\ out.stdout.truncated_by_bytes = result_raw.stdout.truncated_by_bytes
            /\ out.stderr.truncated_by_bytes = result_raw.stderr.truncated_by_bytes

\* C26 witness: a timed-out call returned a stdout cut inside a character,
\* which got a newline and the notice, an empty stderr that got the notice
\* alone, and an aggregate that got the notice because a stream was cut.
C26_Witness ==
    /\ exec_result.kind = "Timeout"
    /\ result_raw.stdout = [text |-> <<"a", "xC3">>, truncated_by_bytes |-> TRUE]
    /\ result_raw.stderr = [text |-> << >>, truncated_by_bytes |-> TRUE]
    /\ ~result_raw.aggregated_output.truncated_by_bytes
    /\ exec_result.output.stdout.text
          = <<"a", REPLACEMENT_CHARACTER, "\n", GENERIC_EXEC_TRUNCATION_NOTICE>>
    /\ exec_result.output.stderr.text = <<GENERIC_EXEC_TRUNCATION_NOTICE>>
    /\ exec_result.output.aggregated_output.truncated_by_bytes

\* the last component of a path that is neither empty nor ".", if the path
\* has one: the text after the last "/" once trailing "/" and "/." are dropped
RECURSIVE Basename(_)
Basename(path) ==
    IF path = << >> THEN << >>
    ELSE IF path[Len(path)] = "/" THEN Basename(SubSeq(path, 1, Len(path) - 1))
    ELSE IF path = <<".">> THEN << >>
    ELSE IF Len(path) >= 2 /\ SubSeq(path, Len(path) - 1, Len(path)) = <<"/", ".">>
         THEN Basename(SubSeq(path, 1, Len(path) - 2))
    ELSE LET k == CHOOSE i \in 0..Len(path) :
                      /\ (i = 0 \/ path[i] = "/")
                      /\ \A j \in (i + 1)..Len(path) : path[j] # "/"
         IN  SubSeq(path, k + 1, Len(path))
\* ["bash", "-lc", script] whose script is plain commands only
IsShellWrapper(command) == parse_bash_lc_plain_commands(command).some
\* the script of a wrapper is one command whose program is rg
WrapsOneRg(command) ==
    LET cmds == parse_bash_lc_plain_commands(command).val
    IN  Len(cmds) = 1 /\ cmds[1] # << >> /\ Basename(cmds[1][1]) = <<"r", "g">>

\* C27: exec_output_limit_for_command returns the ripgrep limit (8192 bytes
\* and the rg notice) exactly when the basename of the program is rg, the
\* program being the command's first word or, for a recognized
\* bash -lc <script> wrapper, the first word of the script's only command (a
\* script of several commands gets the generic limit); every other command,
\* the empty one included, gets the generic limit (6144 bytes and the generic
\* notice); stream_max_bytes equals aggregated_max_bytes in both.
C27_LimitSelection ==
    limit_chosen.some =>
        LET rg == IF IsShellWrapper(limit_command) THEN WrapsOneRg(limit_command)
                  ELSE limit_command # << >> /\ Basename(limit_command[1]) = <<"r", "g">>
            l == limit_chosen.val
        IN  /\ l.stream_max_bytes = l.aggregated_max_bytes
            /\ rg => /\ l.aggregated_max_bytes = 8192
                     /\ l.truncation_notice = RG_EXEC_TRUNCATION_NOTICE
            /\ ~rg => /\ l.aggregated_max_bytes = 6144
                      /\ l.truncation_notice = GENERIC_EXEC_TRUNCATION_NOTICE

\* C27 witness: the limit was chosen for bash -lc with a script of two
\* commands, the first of them rg, and it is the generic one.
C27_Witness ==
    /\ limit_chosen.some
    /\ limit_command = << <<"b", "a", "s", "h">>, <<"-", "l", "c">>, <<"r", "g", " ", "x", " ", "&", "&", " ", "l", "s">> >>
    /\ limit_chosen.val.aggregated_max_bytes = GENERIC_EXEC_OUTPUT_MAX_BYTES

(***************************************************************************)
(* Claims about read_code                                                  *)
(***************************************************************************)
\* the lines of the file a text holds whole
LinesIn(text) == {text[i].n : i \in {j \in 1..Len(text) : text[j].kind = "line" /\ ~text[j].cut}}
\* the lines of a list of ranges
LinesOf(ranges) == UNION {ranges[i][1]..ranges[i][2] : i \in 1..Len(ranges)}
Returned(c) == reads[c].pc = "returned" /\ reads[c].ok

\* C23: whatever the interleaving of the read_code calls of a session on one
\* path, no line of the file is in the text of more than one call.
C23_LineServedOnce ==
    \A c \in ReadCalls, d \in ReadCalls :
        (c # d /\ Returned(c) /\ Returned(d)) =>
            LinesIn(reads[c].text) \cap LinesIn(reads[d].text) = {}

\* C24: every line of the ranges a read_code call recorded in the ledger is
\* in the text the call returned, whatever the state of the turn budget.
C24_RecordedIsDelivered ==
    \A c \in ReadCalls :
        Returned(c) => LinesOf(reads[c].recorded) \subseteq LinesIn(reads[c].text)

\* in this step call c returns an error, or a text for which it recorded no
\* lines
C38_ReturnsUnserved(c) ==
    /\ reads[c].pc # "returned"
    /\ reads'[c].pc = "returned"
    /\ ~reads'[c].ok \/ reads'[c].recorded = << >>

\* C38: a read_code call that returns an error (empty path, symbol, path
\* outside the workspace, zero line endpoint, range outside the file,
\* line-limit error) or only a notice (empty file, all lines already served,
\* byte budget exhausted before any line) leaves the code-range ledger, the
\* turn budget and the turn metrics as they were.
C38_UnservedLeavesState ==
    [][\A c \in ReadCalls :
          C38_ReturnsUnserved(c) =>
              /\ code_read_index' = code_read_index
              /\ turn_code_read_index' = turn_code_read_index
              /\ used_bytes' = used_bytes
              /\ metrics' = metrics]_vars

\* C38 witness: after one call had served lines and used the budget, the
\* other returned the notice that the byte budget was exhausted before any
\* line.
C38_Witness ==
    \E c \in ReadCalls, d \in ReadCalls :
        /\ Returned(c)
        /\ reads[c].recorded # << >>
        /\ used_bytes > 0
        /\ Returned(d)
        /\ reads[d].recorded = << >>
        /\ reads[d].text = <<path_header(ReadPath),
                              notice_line(Len(exhausted_notice), FALSE)>>

\* C39: whenever reserve_tool_output returns a decision for the output of a
\* read_code call, the text the call returns is at most
\* allowed_content_bytes + notice_bytes bytes long, and as long as the full
\* output when the decision is not truncated.
C39_EmitsAtMostReserved ==
    [][\A c \in ReadCalls :
          (reads[c].pc = "recorded" /\ reads'[c].pc = "returned") =>
              /\ text_len(reads'[c].text)
                    <= turn_last'.allowed_content_bytes + turn_last'.notice_bytes
              /\ ~turn_last'.truncated =>
                    text_len(reads'[c].text) = text_len(reads[c].output)]_vars

RECURSIVE LineSeq(_)
\* the line numbers of a list of ranges, in the order of the list
LineSeq(ranges) ==
    IF ranges = << >> THEN << >>
    ELSE [i \in 1..(Head(ranges)[2] - Head(ranges)[1] + 1) |-> Head(ranges)[1] + i - 1]
             \o LineSeq(Tail(ranges))

\* out holds, in order, prefixes of the first ranges of the list, and only
\* its last one can be shorter than the range it was taken from
PrefixesOf(out, ranges) ==
    /\ Len(out) <= Len(ranges)
    /\ \A i \in 1..Len(out) :
          /\ out[i][1] = ranges[i][1]
          /\ out[i][1] <= out[i][2]
          /\ out[i][2] <= ranges[i][2]
    /\ \A i \in 1..(Len(out) - 1) : out[i] = ranges[i]

AppendedLines(text) ==
    LET held == SelectSeq(text, LAMBDA piece : piece.kind = "line")
    IN  [i \in 1..Len(held) |-> held[i].n]

\* C36: for ranges inside the file, the content build_content builds never
\* exceeds max_bytes; the served ranges are exactly the lines whose text was
\* appended, each a prefix of the corresponding range, only the last one
\* possibly shortened; and truncated is true exactly when a line of the
\* ranges was not appended.
C36_ByteCap ==
    (call_args.fn = "build_content" /\ call_result.some) =>
        LET out == call_result.val
        IN  /\ text_len(out.content) <= call_args.max_bytes
            /\ PrefixesOf(out.served, call_args.ranges)
            /\ AppendedLines(out.content) = LineSeq(out.served)
            /\ out.truncated <=> AppendedLines(out.content) # LineSeq(call_args.ranges)

\* C36 witness: after the last line of the file, which has no line feed, a
\* separator and a second segment were appended, and the budget cut the
\* second segment short.
C36_Witness ==
    /\ call_args.fn = "build_content"
    /\ call_result.some
    /\ call_result.val.truncated
    /\ Len(call_result.val.served) = 2
    /\ call_result.val.served[2][2] < call_args.ranges[2][2]
    /\ \E i \in 1..Len(call_result.val.content) :
          call_result.val.content[i].kind = "newline"

\* C37: for valid ranges, a context c and a line_count L >= 1, apply_context
\* returns ranges within [1, L] that are sorted, pairwise disjoint and not
\* adjacent, whose union is the union of the [max(1, start - c),
\* min(L, end + c)] that are not empty; a range that starts beyond L yields
\* nothing.
C37_ContextMerge ==
    (call_args.fn = "apply_context" /\ call_result.some) =>
        LET out == call_result.val
            c == call_args.context
            L == call_args.line_count
            ranges == call_args.ranges
            low(r) == IF r[1] - c >= 1 THEN r[1] - c ELSE 1
            high(r) == IF r[2] + c <= L THEN r[2] + c ELSE L
        IN  /\ \A i \in 1..Len(out) :
                  1 <= out[i][1] /\ out[i][1] <= out[i][2] /\ out[i][2] <= L
            /\ \A i \in 1..(Len(out) - 1) : out[i + 1][1] > out[i][2] + 1
            /\ LinesOf(out)
                  = UNION {low(ranges[i])..high(ranges[i]) : i \in 1..Len(ranges)}
            /\ LinesOf(out)
                  = UNION {low(ranges[i])..high(ranges[i]) :
                              i \in {j \in 1..Len(ranges) : ranges[j][1] <= L}}

(***************************************************************************)
(* Claims about IntervalSet                                                *)
(***************************************************************************)
\* the lines an interval list covers
Covered(ivs) == {n \in 1..USIZE_MAX : \E i \in 1..Len(ivs) : ivs[i][1] <= n /\ n <= ivs[i][2]}

\* C17: after every sequence of inserts, valid or not, on an empty set, the
\* list is sorted by lo, every pair has 1 <= lo <= hi, and consecutive pairs
\* (a,b),(c,d) have c > b + 1.
C17_IntervalSetInvariant ==
    /\ \A i \in 1..Len(intervals) :
          1 <= intervals[i][1] /\ intervals[i][1] <= intervals[i][2]
    /\ \A i \in 1..(Len(intervals) - 1) :
          /\ intervals[i][1] <= intervals[i + 1][1]
          /\ intervals[i + 1][1] > intervals[i][2] + 1

\* C17 witness: insert(3, 4) has joined what it touched on both sides, next
\* to an interval it left alone.
C17_Witness ==
    /\ intervals_last = [op |-> "insert", start |-> 3, end |-> 4]
    /\ intervals = << <<1, 5>>, <<7, 7>> >>

\* C18: for a valid (lo, hi), subtract(lo, hi) returns ascending, pairwise
\* disjoint ranges whose union is [lo, hi] minus the stored intervals; for
\* start == 0, end == 0 or start > end it returns the empty list.
C18_SubtractLaw ==
    intervals_last.op = "subtract" =>
        LET r == intervals_last.result
            lo == intervals_last.start
            hi == intervals_last.end
        IN  IF lo = 0 \/ hi = 0 \/ lo > hi THEN r = << >>
            ELSE /\ \A i \in 1..Len(r) : r[i][1] <= r[i][2]
                 /\ \A i \in 1..(Len(r) - 1) : r[i][2] < r[i + 1][1]
                 /\ UNION {r[i][1]..r[i][2] : i \in 1..Len(r)}
                        = (lo..hi) \ Covered(intervals)

\* C19 (its first part): right after insert(s, e) with a valid (s, e),
\* subtract(s, e) returns the empty list.
C19_InsertThenSubtractEmpty ==
    (intervals_last.op = "insert"
       /\ ~invalid_range(intervals_last.start, intervals_last.end)) =>
         subtract(intervals, intervals_last.start, intervals_last.end) = << >>

\* C20: right after insert(a, b), a second insert(a, b) leaves the stored
\* list as it is.
C20_InsertIdempotent ==
    intervals_last.op = "insert" =>
        insert(intervals, intervals_last.start, intervals_last.end) = intervals

\* C20 witness: insert(2, 4) was merged into a list of two intervals.
C20_Witness ==
    /\ intervals_last = [op |-> "insert", start |-> 2, end |-> 4]
    /\ intervals = << <<1, 4>>, <<6, 7>> >>

\* a step that ends with insert(s, e) as the last operation
C32_InsertStep ==
    intervals_last'.op = "insert" =>
        LET s == intervals_last'.start
            e == intervals_last'.end
        IN  IF s = 0 \/ e = 0 \/ s > e THEN intervals' = intervals
            ELSE Covered(intervals') = Covered(intervals) \cup (s..e)

\* C32: insert(s, e) with a valid (s, e) makes the covered integers those
\* covered before united with [s..e]; insert with a zero endpoint or with
\* start > end leaves the set as it is; and no operation removes a covered
\* integer.
C32_InsertCoverage ==
    [][C32_InsertStep /\ Covered(intervals) \subseteq Covered(intervals')]_vars

\* C32 witness: insert(4, 6) joined the interval ending at the largest
\* usize and left the one at the front alone.
C32_Witness ==
    /\ intervals_last = [op |-> "insert", start |-> 4, end |-> 6]
    /\ intervals = << <<1, 2>>, <<4, 7>> >>

(***************************************************************************)
(* Claims about the code-range ledger                                      *)
(***************************************************************************)
valid_range(r) == r[1] # 0 /\ r[2] # 0 /\ r[1] <= r[2]
\* the lines recorded for a path
Recorded(index, path) == IF path \in DOMAIN index THEN Covered(index[path]) ELSE {}

RECURSIVE RunsFrom(_, _)
\* the maximal runs of consecutive lines of S from line n on, ascending
RunsFrom(S, n) ==
    IF n > USIZE_MAX THEN << >>
    ELSE IF n \notin S THEN RunsFrom(S, n + 1)
    ELSE LET b == CHOOSE m \in n..USIZE_MAX :
                      /\ \A k \in n..m : k \in S
                      /\ (m + 1) \notin S
         IN  << <<n, b>> >> \o RunsFrom(S, b + 1)

RECURSIVE UnservedOf(_, _)
\* for each valid range of the request, in request order, its lines that are
\* not in done, as maximal runs
UnservedOf(ranges, done) ==
    IF ranges = << >> THEN << >>
    ELSE (IF valid_range(Head(ranges))
          THEN RunsFrom((Head(ranges)[1]..Head(ranges)[2]) \ done, 1)
          ELSE << >>) \o UnservedOf(Tail(ranges), done)

\* C21: compute_unserved_code_ranges(path, ranges) returns, for each valid
\* requested range in request order, exactly its subranges not covered by
\* what was recorded for that path, and had_overlap is true exactly when a
\* line of a valid requested range was recorded for that path; what is
\* recorded for other paths has no effect on either.
C21_LedgerResult ==
    ledger_last.op = "compute" =>
        LET done == Recorded(code_read_index, ledger_last.path)
            req == ledger_last.ranges
        IN  /\ ledger_last.result.uncovered = UnservedOf(req, done)
            /\ ledger_last.result.had_overlap
                  <=> \E i \in 1..Len(req) :
                         /\ valid_range(req[i])
                         /\ (req[i][1]..req[i][2]) \cap done # {}

\* C22: compute_unserved_code_ranges never returns a range with a zero
\* endpoint or with start > end, whether or not anything is recorded for the
\* path; a request of invalid ranges only returns nothing and no overlap.
C22_InvalidRangesSkipped ==
    ledger_last.op = "compute" =>
        LET r == ledger_last.result
            req == ledger_last.ranges
        IN  /\ \A i \in 1..Len(r.uncovered) : valid_range(r.uncovered[i])
            /\ (\A i \in 1..Len(req) : ~valid_range(req[i])) =>
                  r.uncovered = << >> /\ ~r.had_overlap

(***************************************************************************)
(* Specifications                                                          *)
(***************************************************************************)
\* Each component runs alone; the others stay in one initial state.
IdleTurn == InitTurn
IdleBreaker == InitBreaker
IdleIntervals == InitIntervals
IdleLedger == InitLedger
IdleResult ==
    /\ result_raw = [exit_status |-> exited_status("unix", 0), timed_out |-> FALSE,
                     stdout |-> [text |-> << >>, truncated_by_bytes |-> FALSE],
                     stderr |-> [text |-> << >>, truncated_by_bytes |-> FALSE],
                     aggregated_output |-> [text |-> << >>, truncated_by_bytes |-> FALSE]]
    /\ result_limit = "generic"
    /\ result_sandbox = "None"
    /\ exec_result = Pending
IdleExec ==
    /\ InitExec
    /\ platform = "unix"
    /\ sandbox_type = "None"
    /\ linux_exe = FALSE
    /\ output_limit = "generic"
    /\ stdout_stream = TRUE
    /\ child_fate = [cause |-> "exit", code |-> 0]
    /\ pipe_reads = 0

StepTurn ==
    \/ \E d \in DesiredBytes, n \in NoticeLens :
          reserve_tool_output(d, n) /\ UNCHANGED besidesTurn
    \/ drain_metrics /\ UNCHANGED besidesTurn
    \/ record_command_blocked /\ UNCHANGED besidesTurn
    \/ record_log_tail /\ UNCHANGED besidesTurn
    \/ \E path \in TurnPaths, ranges \in TurnRanges :
          turn_compute_unserved_code_ranges(path, ranges)
              /\ UNCHANGED besidesTurn
    \/ \E path \in TurnPaths, ranges \in TurnRanges :
          turn_record_served_code_ranges(path, ranges)
              /\ UNCHANGED besidesTurn
    \/ \E key \in ApprovalKeys, tx \in ReplySenders :
          insert_pending_approval(key, tx) /\ UNCHANGED besidesTurn
    \/ \E key \in ApprovalKeys :
          remove_pending_approval(key) /\ UNCHANGED besidesTurn
    \/ clear_pending /\ UNCHANGED besidesTurn
    \/ \E input \in InputItems :
          push_pending_input(input) /\ UNCHANGED besidesTurn
    \/ take_pending_input /\ UNCHANGED besidesTurn

StepBreaker ==
    \/ \E d \in TickSteps : Tick(d) /\ UNCHANGED besidesBreaker
    \/ \E c \in Commands : check_repeat_command(c) /\ UNCHANGED besidesBreaker
    \/ \E c \in Commands, o \in Outputs :
          record_repeat_command(c, o) /\ UNCHANGED besidesBreaker

StepExec ==
    \/ Spawn /\ UNCHANGED besidesExec
    \/ ChildExits /\ UNCHANGED besidesExec
    \/ ChildKilled /\ UNCHANGED besidesExec
    \/ WaitCompletes /\ UNCHANGED besidesExec
    \/ TimeoutFires /\ UNCHANGED besidesExec
    \/ CtrlC /\ UNCHANGED besidesExec
    \/ \E s \in StreamNames, n \in ChunkLens :
          ReadChunk(s, n) /\ UNCHANGED besidesExec
    \/ \E s \in StreamNames : ForwardChunk(s) /\ UNCHANGED besidesExec
    \/ \E s \in StreamNames : StreamEof(s) /\ UNCHANGED besidesExec
    \/ \E s \in StreamNames : StreamFails(s) /\ UNCHANGED besidesExec
    \/ JoinStdout /\ UNCHANGED besidesExec
    \/ JoinStderr /\ UNCHANGED besidesExec

StepIntervals ==
    \/ \E start \in Usize, end \in Usize :
          Insert(start, end) /\ UNCHANGED besidesIntervals
    \/ \E start \in Usize, end \in Usize :
          Subtract(start, end) /\ UNCHANGED besidesIntervals

StepLedger ==
    \/ \E path \in LedgerPaths, ranges \in LedgerRequests :
          session_compute_unserved_code_ranges(path, ranges) /\ UNCHANGED besidesLedger
    \/ \E path \in LedgerPaths, ranges \in LedgerRequests :
          session_record_served_code_ranges(path, ranges) /\ UNCHANGED besidesLedger

StepResult == BuildResult /\ UNCHANGED besidesResult
StepLimit == ChooseLimit /\ UNCHANGED besidesLimit
StepRead ==
    \/ \E c \in ReadCalls, path \in ReadPathArgs, resolved_path \in ResolvedPaths,
          symbol \in ReadSymbols, file \in ReadFiles :
          ReadRefuse(c, path, resolved_path, symbol, file) /\ UNCHANGED besidesRead
    \/ \E c \in ReadCalls, lines \in ReadLines, context \in ReadContexts,
          max_bytes_arg \in ReadMaxBytes :
          ReadConsult(c, lines, context, max_bytes_arg) /\ UNCHANGED besidesRead
    \/ \E c \in ReadCalls : ReadRecord(c) /\ UNCHANGED besidesRead
    \/ \E c \in ReadCalls : ReadReserve(c) /\ UNCHANGED besidesRead
    \/ \E d \in OtherToolBytes : OtherToolReserves(d) /\ UNCHANGED besidesRead

StepCalls ==
    \/ CallEnforceLineCap /\ UNCHANGED besidesCalls
    \/ CallBuildContent /\ UNCHANGED besidesCalls
    \/ CallApplyContext /\ UNCHANGED besidesCalls

StepMutex ==
    \/ \E t \in LockTasks, call \in LockedCalls : Lock(t, call) /\ UNCHANGED besidesMutex
    \/ \E t \in LockTasks : LockAcquired(t) /\ UNCHANGED besidesMutex
    \/ \E t \in LockTasks : Unlock(t) /\ UNCHANGED besidesMutex
    \/ \E t \in LockTasks : try_clear_pending_sync(t) /\ UNCHANGED besidesMutex

\* the components that take no step in the specifications of the others
IdleLimit == limit_command = << >> /\ limit_chosen = None
IdleRead == InitRead
IdleCalls == call_args = [fn |-> "none"] /\ call_result = None
IdleMutex == InitMutex
IdleLater == IdleLedger /\ IdleResult /\ IdleLimit /\ IdleRead /\ IdleCalls /\ IdleMutex
InitSpecTurn == InitTurn /\ IdleBreaker /\ IdleExec /\ IdleIntervals /\ IdleLater
InitSpecBreaker == IdleTurn /\ InitBreaker /\ IdleExec /\ IdleIntervals /\ IdleLater
InitSpecIntervals == IdleTurn /\ IdleBreaker /\ IdleExec /\ InitIntervals /\ IdleLater
InitSpecLedger ==
    /\ IdleTurn /\ IdleBreaker /\ IdleExec /\ IdleIntervals
    /\ InitLedger /\ IdleResult /\ IdleLimit /\ IdleRead /\ IdleCalls /\ IdleMutex
InitSpecResult ==
    /\ IdleTurn /\ IdleBreaker /\ IdleExec /\ IdleIntervals
    /\ IdleLedger /\ InitResult /\ IdleLimit /\ IdleRead /\ IdleCalls /\ IdleMutex
InitSpecLimit ==
    /\ IdleTurn /\ IdleBreaker /\ IdleExec /\ IdleIntervals
    /\ IdleLedger /\ IdleResult /\ InitLimit /\ IdleRead /\ IdleCalls /\ IdleMutex
\* A session with nothing recorded and a turn with nothing reserved.
InitSpecRead ==
    /\ InitTurn /\ IdleBreaker /\ IdleExec /\ IdleIntervals
    /\ InitLedger /\ IdleResult /\ IdleLimit /\ InitRead /\ IdleCalls /\ IdleMutex
\* A turn with nothing pending and its mutex free.
InitSpecMutex ==
    /\ InitTurn /\ IdleBreaker /\ IdleExec /\ IdleIntervals
    /\ IdleLedger /\ IdleResult /\ IdleLimit /\ IdleRead /\ IdleCalls /\ InitMutex
InitSpecCalls ==
    /\ IdleTurn /\ IdleBreaker /\ IdleExec /\ IdleIntervals
    /\ IdleLedger /\ IdleResult /\ IdleLimit /\ IdleRead /\ InitCalls /\ IdleMutex
\* process_exec_tool_call for every build, sandbox and fate of the child, the
\* child writing little.
InitSpecExec ==
    /\ IdleTurn
    /\ IdleBreaker
    /\ IdleIntervals
    /\ IdleLater
    /\ InitExec
    /\ output_limit = "generic"
    /\ stdout_stream = TRUE
    /\ pipe_reads \in {0, 1}
\* The capture of the output of a command that exits with 0, for every
\* output limit, with and without a subscriber, the child writing much.
InitSpecCapture ==
    /\ IdleTurn
    /\ IdleBreaker
    /\ IdleIntervals
    /\ IdleLater
    /\ InitExec
    /\ platform = "unix"
    /\ sandbox_type = "None"
    /\ linux_exe = FALSE
    /\ child_fate = [cause |-> "exit", code |-> 0]
    /\ pipe_reads = MaxReads

SpecTurn == InitSpecTurn /\ [][StepTurn]_vars
SpecBreaker == InitSpecBreaker /\ [][StepBreaker]_vars
\* Time does advance: the clock is never stopped for good.
LiveBreaker ==
    /\ InitSpecBreaker
    /\ [][StepBreaker]_vars
    /\ WF_vars(\E d \in TickSteps : Tick(d) /\ UNCHANGED besidesBreaker)
SpecExec == InitSpecExec /\ [][StepExec]_vars
SpecCapture == InitSpecCapture /\ [][StepExec]_vars
SpecIntervals == InitSpecIntervals /\ [][StepIntervals]_vars
SpecLedger == InitSpecLedger /\ [][StepLedger]_vars
SpecResult == InitSpecResult /\ [][StepResult]_vars
SpecLimit == InitSpecLimit /\ [][StepLimit]_vars
SpecRead == InitSpecRead /\ [][StepRead]_vars
SpecCalls == InitSpecCalls /\ [][StepCalls]_vars
SpecMutex == InitSpecMutex /\ [][StepMutex]_vars
\* The kill takes effect, the pipes of an ended child reach EOF, and a task
\* that can run is run.
LiveExec ==
    /\ InitSpecExec
    /\ [][StepExec]_vars
    /\ WF_vars(ChildKilled /\ UNCHANGED besidesExec)
    /\ \A s \in StreamNames :
          /\ WF_vars(ForwardChunk(s) /\ UNCHANGED besidesExec)
          /\ WF_vars(StreamEof(s) /\ UNCHANGED besidesExec)
    /\ WF_vars(JoinStdout /\ UNCHANGED besidesExec)
    /\ WF_vars(JoinStderr /\ UNCHANGED besidesExec)
\* The capture of two chunks without a subscriber, with the tasks and the
\* supervisor scheduled fairly.
InitSpecDrain ==
    /\ IdleTurn
    /\ IdleBreaker
    /\ IdleIntervals
    /\ IdleLater
    /\ InitExec
    /\ platform = "unix"
    /\ sandbox_type = "None"
    /\ linux_exe = FALSE
    /\ child_fate = [cause |-> "exit", code |-> 0]
    /\ output_limit = "generic"
    /\ stdout_stream = FALSE
    /\ pipe_reads = DrainReads
LiveCapture ==
    /\ InitSpecDrain
    /\ [][StepExec]_vars
    /\ \A s \in StreamNames :
          /\ WF_vars(ForwardChunk(s) /\ UNCHANGED besidesExec)
          /\ WF_vars(StreamEof(s) /\ UNCHANGED besidesExec)
    /\ WF_vars(JoinStdout /\ UNCHANGED besidesExec)
    /\ WF_vars(JoinStderr /\ UNCHANGED besidesExec)

====
